---- MODULE Spec2Model ----
(***************************************************************************)
(* A model of the Direct3D11 memory core of gst-plugins-bad:               *)
(*   gst-libs/gst/d3d11/gstd3d11memory.c      (allocator, memory object)   *)
(*   gst-libs/gst/d3d11/gstd3d11bufferpool.c  (buffer pool)                *)
(*                                                                         *)
(* Part A models the allocator (GstD3D11Allocator): the texture-array      *)
(* slot bitmap, the condition variable and the flushing flag, used by      *)
(* several threads.  Part B models the map / unmap protocol of one memory  *)
(* object (GstD3D11Memory), Part C its derived views, Part D the buffer    *)
(* pool (GstD3D11BufferPool) on top of the allocator.  The parts have      *)
(* their own variables and their own specifications; the variables of the  *)
(* other parts stay put.                                                   *)
(***************************************************************************)
EXTENDS Integers, Sequences, FiniteSets, TLC

(***************************************************************************)
(* Bounds of the model.                                                    *)
(***************************************************************************)
\* desc->ArraySize of the array texture: the number of slots (K).
ArraySize == 2
\* Number of threads that call gst_d3d11_allocator_alloc in array mode.  The
\* other calls of the allocator are single steps and can come from any thread
\* that is not inside such a call.
NumThreads == 2
\* Number of memory objects of one type and subresource index that can be
\* alive at once.
MaxMem == 2
\* Number of memory objects of type TEXTURE or STAGING that can be alive at once.
MaxOther == 1
\* How far below 0 the model follows num_array_textures_in_use.
MaxUnderflow == 1
\* Number of maps of the memory object that can be outstanding at once.
MaxNest == 2
\* The contents of a texture are a value in 0..MaxVal.
MaxVal == 1
\* Width and height of the video in the caps are in 1..MaxDim.
MaxDim == 2
\* Right and bottom padding a caller has applied to its parameters: 0..MaxPad.
MaxPad == 1
\* The max_buffers a caller asks for is in 0..MaxBuffers.
MaxBuffers == 3
\* Number of decoder profiles (GUIDs) a caller can ask a view for.
MaxProfile == 2
\* Number of native views the device creates in one behaviour.
MaxViews == 3
\* Number of threads that ask one memory object for its views.
NumViewThreads == 2

\* num_array_textures_in_use is a guint.  The model holds it as the gint with
\* the same 32 bits (the model checker's integers are 32-bit signed): 0 - 1
\* is -1, the bit pattern of G_MAXUINT, and no bound of the model lets it
\* reach 2^31.
GUintInc(n) == n + 1
GUintDec(n) == n - 1

Threads == 1..NumThreads

\* The subresources of an array texture of ArraySize slices.
Slots == 0..(ArraySize - 1)

\* What a texture can hold.
Values == 0..MaxVal

\* GstD3D11MemoryType
GST_D3D11_MEMORY_TYPE_TEXTURE == "TEXTURE"
GST_D3D11_MEMORY_TYPE_ARRAY   == "ARRAY"
GST_D3D11_MEMORY_TYPE_STAGING == "STAGING"

NULL == 0

\* What a memory object is to its allocator: priv->type and
\* priv->subresource_index.  Objects that agree on both are interchangeable,
\* so the model counts the live objects of each kind.
Mem(type, index) == <<type, index>>
TypeOf(m) == m[1]
IndexOf(m) == m[2]
MemKinds ==
  {Mem(GST_D3D11_MEMORY_TYPE_ARRAY, i) : i \in 0..(ArraySize - 1)}
    \cup {Mem(GST_D3D11_MEMORY_TYPE_TEXTURE, 0), Mem(GST_D3D11_MEMORY_TYPE_STAGING, 0)}

VARIABLES
  \* ---- GstD3D11AllocatorPrivate ----
  flushing,                  \* priv->flushing
  array_in_use,              \* priv->array_in_use: <<>> is NULL, else a sequence
                             \* of 0/1, slot i at position i+1
  array_texture_size,        \* priv->array_texture_size
  num_array_textures_in_use, \* priv->num_array_textures_in_use (guint)
  texture,                   \* priv->texture: NULL or the handle of the array texture
  cond,                      \* the threads blocked in g_cond_wait (&priv->cond)
  \* ---- the memory objects of this allocator ----
  mems,                      \* MemKinds -> the number of live objects of the kind
  \* ---- each thread's position in gst_d3d11_allocator_alloc ----
  pc,                        \* "idle", "do_again", "wait", "texture", "create"
  desc_ArraySize,            \* desc->ArraySize of the call in progress
  index_to_use,              \* the local index_to_use
  \* ---- history ----
  waited,                    \* the call in progress has blocked in g_cond_wait
  flush_woken,               \* it was blocked when set_flushing (TRUE) was called
  last,                      \* the call that returned last, and the object it returned
  \* ---- GstD3D11MemoryPrivate and the flags of one memory object ----
  mtype,                     \* priv->type
  subresource_index,         \* priv->subresource_index
  staging,                   \* priv->staging is not NULL
  cpu_map_count,             \* priv->cpu_map_count
  need_upload,               \* GST_D3D11_MEMORY_TRANSFER_NEED_UPLOAD is set
  need_download,             \* GST_D3D11_MEMORY_TRANSFER_NEED_DOWNLOAD is set
  \* ---- the device ----
  tex_data,                  \* contents of priv->texture, per subresource
  staging_data,              \* contents of priv->staging
  hw_mapped,                 \* the CPU-visible texture is mapped (Map without Unmap)
  \* ---- the caller ----
  maps,                      \* the flags of the outstanding maps, innermost last
  \* ---- history ----
  calls,                     \* the device calls of the last step, in order
  ret,                       \* the last call of the object and whether it succeeded
  written,                   \* {v}: the CPU wrote v to the mirror and no copy from
                             \* the texture has replaced it; {} otherwise
  gpu_dirty,                 \* the GPU changed the texture and no copy between the
                             \* texture and the mirror has happened since
  \* ---- the derived views of the memory object (GstD3D11MemoryPrivate) ----
  live,                      \* the object has been returned by alloc and not freed
  desc_BindFlags,            \* priv->desc.BindFlags
  desc_Format,               \* priv->desc.Format
  shader_resource_view,      \* priv->shader_resource_view[]
  num_shader_resource_views, \* priv->num_shader_resource_views
  render_target_view,        \* priv->render_target_view[]
  num_render_target_views,   \* priv->num_render_target_views
  decoder_output_view,       \* priv->decoder_output_view
  processor_output_view,     \* priv->processor_output_view
  \* ---- GstD3D11AllocatorPrivate ----
  decoder_output_view_array, \* priv->decoder_output_view_array: <<>> is NULL, else
                             \* a sequence of views, slot i at position i+1
  \* ---- the device ----
  view_refs,                 \* the reference count of each native view
  view_profile,              \* DecodeProfile of each decoder output view
  num_created,               \* the number of native views created so far; the
                             \* handle of a view is its number
  \* ---- each thread's position in a get_..._view call ----
  vpc,                       \* "idle", "srv", "rtv"
  vindex,                    \* the argument index of the call in progress
  \* ---- history ----
  vret,                      \* the last view call that returned and its result
  \* ---- GstD3D11BufferPoolPrivate ----
  pool_allocator,            \* priv->allocator: NULL, or where it came from
  d3d11_params,              \* priv->d3d11_params: NULL or the parameters
  buffer_size,               \* self->buffer_size with priv->stride, offset and
                             \* size: NULL, or the video info they were computed for
  \* ---- the config structure the caller holds ----
  config,                    \* its fields
  \* ---- each thread's position in gst_d3d11_buffer_pool_alloc ----
  pool_pc,                   \* "idle", "alloc", "unref"
  buf,                       \* the memory objects of the local buf, in order
  \* ---- the buffers the pool has returned ----
  owned,                     \* MemKinds -> the number of objects of the kind in them
  \* ---- history ----
  set_config_call,           \* the config passed to the last set_config, and what
                             \* the device and the parent class did in it
  set_config_ret,            \* what it returned; "none" once the config is edited
  acquired,                  \* what the last gst_d3d11_buffer_pool_alloc returned
  \* ---- the caller of gst_d3d11_allocator_get_texture_array_size ----
  get_pc,                    \* "idle", or "test" between its two reads of
                             \* priv->array_texture_size
  array_size,                \* *array_size
  num_texture_in_use,        \* *num_texture_in_use
  \* ---- the device: the array textures created for the allocator ----
  texture_refs,              \* the reference count of each, the texture of
                             \* handle h at position h; 0: destroyed
  mem_texture,               \* <<slot, h>> -> the number of live objects of type
                             \* ARRAY with that subresource_index whose
                             \* priv->texture is h
  disposed,                  \* gst_d3d11_allocator_dispose has run
  \* ---- the locks: priv->lock of each memory object, priv->lock of the
  \* ---- allocator and the lock of the device (gst_d3d11_device_lock) ----
  held,                      \* the locks each thread holds, in the order taken
  prog,                      \* what is left of the call each thread is in: the
                             \* lock operations and native calls still to make
  cv,                        \* the threads in g_cond_wait (&priv->cond, &priv->lock)
  slots_free,                \* the number of entries of priv->array_in_use at 0
  last_native                \* the last call on the device context, and the
                             \* locks its thread held

allocVars == <<flushing, array_in_use, array_texture_size,
               num_array_textures_in_use, texture, cond, mems, pc,
               desc_ArraySize, index_to_use, waited, flush_woken, last>>

mapVars == <<mtype, subresource_index, staging, cpu_map_count, need_upload,
             need_download, tex_data, staging_data, hw_mapped, maps, calls,
             ret, written, gpu_dirty>>

viewVars == <<live, desc_BindFlags, desc_Format, shader_resource_view,
              num_shader_resource_views, render_target_view,
              num_render_target_views, decoder_output_view,
              processor_output_view, decoder_output_view_array, view_refs,
              view_profile, num_created, vpc, vindex, vret>>

poolVars == <<pool_allocator, d3d11_params, buffer_size, config,
              pool_pc, buf, owned, set_config_call, set_config_ret, acquired>>

getVars == <<get_pc, array_size, num_texture_in_use>>

refVars == <<texture_refs, mem_texture, disposed>>

lockVars == <<held, prog, cv, slots_free, last_native>>

vars == <<allocVars, mapVars, viewVars, poolVars, getVars, refVars, lockVars>>

(***************************************************************************)
(* Part A: the allocator.                                                  *)
(***************************************************************************)

RECURSIVE SumOver(_, _)
SumOver(f, S) ==
  IF S = {} THEN 0
  ELSE LET x == CHOOSE y \in S : TRUE IN f[x] + SumOver(f, S \ {x})

\* The number of live objects of type ARRAY whose subresource_index is i.
NumOwners(i) == mems[Mem(GST_D3D11_MEMORY_TYPE_ARRAY, i)]

\* The number of live objects that are not slices of the array texture.
NumOther ==
  mems[Mem(GST_D3D11_MEMORY_TYPE_TEXTURE, 0)] + mems[Mem(GST_D3D11_MEMORY_TYPE_STAGING, 0)]

\* The model's caps on live objects: a call returns a memory object like m
\* only while fewer than MaxMem such array slices, or fewer than MaxOther
\* other objects, are alive.
CanAlloc(m) ==
  IF TypeOf(m) = GST_D3D11_MEMORY_TYPE_ARRAY THEN mems[m] < MaxMem
  ELSE NumOther < MaxOther

\* What a finished call leaves in last.
Returned(call, m) == [call |-> call, mem |-> m]
NoCall == Returned("none", NULL)

\* g_cond_broadcast (&priv->cond): every waiter leaves g_cond_wait, and goes
\* back to do_again once it has re-acquired and released the lock (lines 1002-1004).
Broadcast(p) == [t \in Threads |-> IF t \in cond THEN "do_again" ELSE p[t]]

\* The locals of a call are dead once it has returned.
EndCall(t) ==
  /\ pc' = [pc EXCEPT ![t] = "idle"]
  /\ desc_ArraySize' = [desc_ArraySize EXCEPT ![t] = 0]
  /\ index_to_use' = [index_to_use EXCEPT ![t] = 0]
  /\ waited' = [waited EXCEPT ![t] = FALSE]
  /\ flush_woken' = [flush_woken EXCEPT ![t] = FALSE]

\* gst_d3d11_allocator_alloc is called with GST_D3D11_ALLOCATION_FLAG_TEXTURE_ARRAY
\* and a descriptor whose ArraySize is n (lines 934-956).
AllocArrayCallEffect(t, n) ==
  /\ pc[t] = "idle"
  /\ pc' = [pc EXCEPT ![t] = "do_again"]
  /\ desc_ArraySize' = [desc_ArraySize EXCEPT ![t] = n]
  /\ UNCHANGED <<flushing, array_in_use, array_texture_size,
                 num_array_textures_in_use, texture, cond, mems,
                 index_to_use, waited, flush_woken, last>>

\* The step in a call made directly, not by the buffer pool.
AllocArrayCall(t, n) ==
  /\ AllocArrayCallEffect(t, n)
  /\ UNCHANGED <<mapVars, viewVars, poolVars, getVars, refVars, lockVars>>

\* lines 968-973: the bitmap after its lazy creation.
EnsureArray(n) == IF array_in_use = <<>> THEN [i \in 1..n |-> 0] ELSE array_in_use

\* A variant of AllocArrayFlushing that tests flushing only after the lazy
\* creation of the bitmap.
AllocArrayFlushingAfterCreation(t) ==
  /\ pc[t] = "do_again"
  /\ flushing
  /\ array_in_use' = EnsureArray(desc_ArraySize[t])
  /\ array_texture_size' =
       IF array_in_use = <<>> THEN desc_ArraySize[t] ELSE array_texture_size
  /\ EndCall(t)
  /\ last' = Returned("alloc_flushing", NULL)
  /\ UNCHANGED <<flushing, num_array_textures_in_use, texture, cond, mems>>
  /\ UNCHANGED <<mapVars, viewVars, poolVars, getVars, refVars, lockVars>>

\* lines 959-966: the lock is taken and flushing is set: return NULL.
AllocArrayFlushingEffect(t) ==
  /\ pc[t] = "do_again"
  /\ flushing
  /\ EndCall(t)
  /\ last' = Returned("alloc_flushing", NULL)
  /\ UNCHANGED <<flushing, array_in_use, array_texture_size,
                 num_array_textures_in_use, texture, cond, mems>>

\* The step in a call made directly, not by the buffer pool.
AllocArrayFlushing(t) ==
  /\ AllocArrayFlushingEffect(t)
  /\ UNCHANGED <<mapVars, viewVars, poolVars, getVars, refVars, lockVars>>

\* A variant of FirstFree that scans the bitmap from its end.
LastFree(bitmap, n) ==
  IF \E k \in 0..(n - 1) : bitmap[k + 1] = 0
  THEN CHOOSE k \in 0..(n - 1) :
         bitmap[k + 1] = 0 /\ \A j \in (k + 1)..(n - 1) : bitmap[j + 1] # 0
  ELSE n

\* lines 993-998: the first i in [0, n) whose slot is free in bitmap, n when
\* there is none.
FirstFree(bitmap, n) ==
  IF \E k \in 0..(n - 1) : bitmap[k + 1] = 0
  THEN CHOOSE k \in 0..(n - 1) :
         bitmap[k + 1] = 0 /\ \A j \in 0..(k - 1) : bitmap[j + 1] # 0
  ELSE n

\* A variant of AllocArrayScan that does not test the flushing flag.
AllocArrayScanWhileFlushing(t) ==
  /\ pc[t] = "do_again"
  /\ LET n == desc_ArraySize[t]
         bitmap == EnsureArray(n)
         i == FirstFree(bitmap, n)
     IN /\ array_texture_size' =
             IF array_in_use = <<>> THEN n ELSE array_texture_size
        /\ IF i = n
           THEN \* lines 1000-1005: g_cond_wait
                /\ array_in_use' = bitmap
                /\ cond' = cond \cup {t}
                /\ pc' = [pc EXCEPT ![t] = "wait"]
                /\ waited' = [waited EXCEPT ![t] = TRUE]
                /\ UNCHANGED <<num_array_textures_in_use, index_to_use>>
           ELSE \* lines 1007-1010
                /\ array_in_use' = [bitmap EXCEPT ![i + 1] = 1]
                /\ num_array_textures_in_use' =
                     GUintInc(num_array_textures_in_use)
                /\ index_to_use' = [index_to_use EXCEPT ![t] = i]
                /\ pc' = [pc EXCEPT ![t] = "texture"]
                /\ UNCHANGED <<cond, waited>>
  /\ UNCHANGED <<flushing, texture, mems, desc_ArraySize, flush_woken, last>>
  /\ UNCHANGED <<mapVars, viewVars, poolVars, getVars, refVars, lockVars>>

\* lines 959-1010, flushing clear: the critical section from the lock to the
\* unlock (a slot was found) or to g_cond_wait (none was).  The section is one
\* step: every access in it is made under priv->lock, and g_cond_wait gives
\* the lock up and blocks in one atomic step.
AllocArrayScan(t) ==
  /\ pc[t] = "do_again"
  /\ ~flushing
  /\ LET n == desc_ArraySize[t]
         bitmap == EnsureArray(n)
         i == FirstFree(bitmap, n)
     IN /\ array_texture_size' =
             IF array_in_use = <<>> THEN n ELSE array_texture_size
        /\ IF i = n
           THEN \* lines 1000-1005: g_cond_wait
                /\ array_in_use' = bitmap
                /\ cond' = cond \cup {t}
                /\ pc' = [pc EXCEPT ![t] = "wait"]
                /\ waited' = [waited EXCEPT ![t] = TRUE]
                /\ UNCHANGED <<num_array_textures_in_use, index_to_use>>
           ELSE \* lines 1007-1010
                /\ array_in_use' = [bitmap EXCEPT ![i + 1] = 1]
                /\ num_array_textures_in_use' =
                     GUintInc(num_array_textures_in_use)
                /\ index_to_use' = [index_to_use EXCEPT ![t] = i]
                /\ pc' = [pc EXCEPT ![t] = "texture"]
                /\ UNCHANGED <<cond, waited>>
  /\ UNCHANGED <<flushing, texture, mems, desc_ArraySize, flush_woken, last>>
  /\ UNCHANGED <<mapVars, viewVars, poolVars, getVars, refVars, lockVars>>

\* g_cond_wait may return without a broadcast (a spurious wakeup).
SpuriousWakeup(t) ==
  /\ pc[t] = "wait"
  /\ t \in cond
  /\ cond' = cond \ {t}
  /\ pc' = [pc EXCEPT ![t] = "do_again"]
  /\ UNCHANGED <<flushing, array_in_use, array_texture_size,
                 num_array_textures_in_use, texture, mems,
                 desc_ArraySize, index_to_use, waited, flush_woken, last>>
  /\ UNCHANGED <<mapVars, viewVars, poolVars, getVars, refVars, lockVars>>

\* lines 1033-1046: the memory object the call returns.
NewArrayMem(t) == Mem(GST_D3D11_MEMORY_TYPE_ARRAY, index_to_use[t])

\* gst_memory_init and the return of the new object m.
ReturnMem(call, m) ==
  /\ mems' = [mems EXCEPT ![m] = @ + 1]
  /\ last' = Returned(call, m)

\* lines 1012, 1021-1046: priv->texture exists: take a reference, build the
\* memory object and return it.
AllocArrayReturnEffect(t) ==
  /\ pc[t] = "texture"
  /\ texture # NULL
  /\ CanAlloc(NewArrayMem(t))
  /\ ReturnMem("alloc_array", NewArrayMem(t))
  /\ EndCall(t)
  /\ UNCHANGED <<flushing, array_in_use, array_texture_size,
                 num_array_textures_in_use, texture, cond>>

\* The step in a call made directly, not by the buffer pool.
AllocArrayReturn(t) ==
  /\ AllocArrayReturnEffect(t)
  /\ UNCHANGED <<mapVars, viewVars, poolVars, getVars, refVars, lockVars>>

\* line 1012: priv->texture is NULL (read without the lock): go and create it.
AllocArrayNoTexture(t) ==
  /\ pc[t] = "texture"
  /\ texture = NULL
  /\ pc' = [pc EXCEPT ![t] = "create"]
  /\ UNCHANGED <<flushing, array_in_use, array_texture_size,
                 num_array_textures_in_use, texture, cond, mems,
                 desc_ArraySize, index_to_use, waited, flush_woken, last>>
  /\ UNCHANGED <<mapVars, viewVars, poolVars, getVars, refVars, lockVars>>

\* lines 1013-1046: ID3D11Device_CreateTexture2D succeeds and stores the new
\* texture in priv->texture; the memory object is built on it.
AllocArrayCreateEffect(t) ==
  /\ pc[t] = "create"
  /\ CanAlloc(NewArrayMem(t))
  /\ texture' = texture + 1
  /\ ReturnMem("alloc_array", NewArrayMem(t))
  /\ EndCall(t)
  /\ UNCHANGED <<flushing, array_in_use, array_texture_size,
                 num_array_textures_in_use, cond>>

\* The step in a call made directly, not by the buffer pool.
AllocArrayCreate(t) ==
  /\ AllocArrayCreateEffect(t)
  /\ UNCHANGED <<mapVars, viewVars, poolVars, getVars, refVars, lockVars>>

\* lines 1013-1018, 1048-1052: ID3D11Device_CreateTexture2D fails: goto error,
\* return NULL.
AllocArrayCreateFailEffect(t) ==
  /\ pc[t] = "create"
  /\ last' = Returned("alloc_failed", NULL)
  /\ EndCall(t)
  /\ UNCHANGED <<flushing, array_in_use, array_texture_size,
                 num_array_textures_in_use, texture, cond, mems>>

\* The step in a call made directly, not by the buffer pool.
AllocArrayCreateFail(t) ==
  /\ AllocArrayCreateFailEffect(t)
  /\ UNCHANGED <<mapVars, viewVars, poolVars, getVars, refVars, lockVars>>

\* A variant of AllocTextureEffect that tests priv->flushing as the array
\* branch does.
AllocTextureTestsFlushing(ok) ==
  /\ ok => CanAlloc(Mem(GST_D3D11_MEMORY_TYPE_TEXTURE, 0))
  /\ IF flushing
     THEN /\ mems' = mems
          /\ last' = Returned("alloc_flushing", NULL)
     ELSE IF ok
     THEN ReturnMem("alloc_texture", Mem(GST_D3D11_MEMORY_TYPE_TEXTURE, 0))
     ELSE /\ mems' = mems
          /\ last' = Returned("alloc_failed", NULL)
  /\ UNCHANGED <<flushing, array_in_use, array_texture_size,
                 num_array_textures_in_use, texture, cond, pc,
                 desc_ArraySize, index_to_use, waited, flush_woken>>

\* lines 1025-1046: alloc without the array flag; the native texture is created
\* (ok) or not.
AllocTextureEffect(ok) ==
  /\ ok => CanAlloc(Mem(GST_D3D11_MEMORY_TYPE_TEXTURE, 0))
  /\ IF ok
     THEN ReturnMem("alloc_texture", Mem(GST_D3D11_MEMORY_TYPE_TEXTURE, 0))
     ELSE /\ mems' = mems
          /\ last' = Returned("alloc_failed", NULL)
  /\ UNCHANGED <<flushing, array_in_use, array_texture_size,
                 num_array_textures_in_use, texture, cond, pc,
                 desc_ArraySize, index_to_use, waited, flush_woken>>

\* gst_d3d11_allocator_alloc without the array flag, called directly.
AllocTexture(ok) ==
  /\ AllocTextureEffect(ok)
  /\ UNCHANGED <<mapVars, viewVars, poolVars, getVars, refVars, lockVars>>

\* gst_d3d11_allocator_alloc_staging, lines 1067-1118.
AllocStaging(ok) ==
  /\ CanAlloc(Mem(GST_D3D11_MEMORY_TYPE_STAGING, 0))
  /\ IF ok
     THEN ReturnMem("alloc_staging", Mem(GST_D3D11_MEMORY_TYPE_STAGING, 0))
     ELSE /\ mems' = mems
          /\ last' = Returned("alloc_failed", NULL)
  /\ UNCHANGED <<flushing, array_in_use, array_texture_size,
                 num_array_textures_in_use, texture, cond, pc,
                 desc_ArraySize, index_to_use, waited, flush_woken>>
  /\ UNCHANGED <<mapVars, viewVars, poolVars, getVars, refVars, lockVars>>

\* line 554: the test that guards the release of the slot of m.
FreeReleasesSlot(m) == array_in_use # <<>>

\* A variant of Free that releases the slot without g_cond_broadcast.
FreeWithoutBroadcast(m) ==
  /\ mems[m] > 0
  /\ FreeReleasesSlot(m) => num_array_textures_in_use > -MaxUnderflow
  /\ IF FreeReleasesSlot(m)
     THEN /\ array_in_use' = [array_in_use EXCEPT ![IndexOf(m) + 1] = 0]
          /\ num_array_textures_in_use' = GUintDec(num_array_textures_in_use)
     ELSE UNCHANGED <<array_in_use, num_array_textures_in_use>>
  /\ mems' = [mems EXCEPT ![m] = @ - 1]
  /\ last' = Returned("free", m)
  /\ UNCHANGED <<flushing, array_texture_size, texture, pc, cond,
                 desc_ArraySize, index_to_use, waited, flush_woken>>
  /\ UNCHANGED <<mapVars, viewVars, poolVars, getVars, refVars, lockVars>>

\* gst_d3d11_allocator_free, lines 545-590, of a live object m.
FreeEffect(m) ==
  /\ mems[m] > 0
  /\ FreeReleasesSlot(m) => num_array_textures_in_use > -MaxUnderflow
  /\ IF FreeReleasesSlot(m)
     THEN /\ array_in_use' = [array_in_use EXCEPT ![IndexOf(m) + 1] = 0]
          /\ num_array_textures_in_use' = GUintDec(num_array_textures_in_use)
          /\ pc' = Broadcast(pc)
          /\ cond' = {}
     ELSE UNCHANGED <<array_in_use, num_array_textures_in_use, pc, cond>>
  /\ mems' = [mems EXCEPT ![m] = @ - 1]
  /\ last' = Returned("free", m)
  /\ UNCHANGED <<flushing, array_texture_size, texture,
                 desc_ArraySize, index_to_use, waited, flush_woken>>

\* gst_d3d11_allocator_free called for an object no buffer pool call holds.
Free(m) ==
  /\ FreeEffect(m)
  /\ UNCHANGED <<mapVars, viewVars, poolVars, getVars, refVars, lockVars>>

\* What a finished gst_d3d11_allocator_set_flushing (allocator, b) leaves in
\* last.call.
SetFlushingCall(b) == IF b THEN "set_flushing_TRUE" ELSE "set_flushing_FALSE"

\* A variant of SetFlushing that returns at once when the flag already has
\* the value asked for.
SetFlushingIfChanged(b) ==
  /\ flushing' = b
  /\ pc' = IF flushing = b THEN pc ELSE Broadcast(pc)
  /\ cond' = IF flushing = b THEN cond ELSE {}
  /\ flush_woken' = [u \in Threads |->
                      flush_woken[u] \/ (b /\ flushing # b /\ u \in cond)]
  /\ last' = Returned(SetFlushingCall(b), NULL)
  /\ UNCHANGED <<array_in_use, array_texture_size, num_array_textures_in_use,
                 texture, mems, desc_ArraySize, index_to_use, waited>>
  /\ UNCHANGED <<mapVars, viewVars, poolVars, getVars, refVars, lockVars>>

\* gst_d3d11_allocator_set_flushing, lines 1129-1143.
SetFlushing(b) ==
  /\ flushing' = b
  /\ pc' = Broadcast(pc)
  /\ cond' = {}
  /\ flush_woken' = [u \in Threads |-> flush_woken[u] \/ (b /\ u \in cond)]
  /\ last' = Returned(SetFlushingCall(b), NULL)
  /\ UNCHANGED <<array_in_use, array_texture_size, num_array_textures_in_use,
                 texture, mems, desc_ArraySize, index_to_use, waited>>
  /\ UNCHANGED <<mapVars, viewVars, poolVars, getVars, refVars, lockVars>>

\* gst_d3d11_allocator_init, lines 641-661 (the private struct is zeroed).
AllocInit ==
  /\ flushing = FALSE
  /\ array_in_use = <<>>
  /\ array_texture_size = 1
  /\ num_array_textures_in_use = 0
  /\ texture = NULL
  /\ cond = {}
  /\ mems = [m \in MemKinds |-> 0]
  /\ pc = [t \in Threads |-> "idle"]
  /\ desc_ArraySize = [t \in Threads |-> 0]
  /\ index_to_use = [t \in Threads |-> 0]
  /\ waited = [t \in Threads |-> FALSE]
  /\ flush_woken = [t \in Threads |-> FALSE]
  /\ last = NoCall

\* The handles of the array textures the device can create for one allocator:
\* each thread inside alloc creates at most one.
Handles == 1..NumThreads

\* A new allocator has no array texture and no memory object.
RefInit ==
  /\ texture_refs = <<>>
  /\ mem_texture = [x \in Slots \X Handles |-> 0]
  /\ disposed = FALSE

\* The out parameters of gst_d3d11_allocator_get_texture_array_size before the
\* first call: nothing has been stored in them.
GetInit ==
  /\ get_pc = "idle"
  /\ array_size = 0
  /\ num_texture_in_use = 0

\* gst_d3d11_allocator_get_texture_array_size, lines 1166-1169: the first read
\* of priv->array_texture_size, without the lock, and the two stores.
GetTextureArraySizeStart ==
  /\ get_pc = "idle"
  /\ array_size' = array_texture_size
  /\ num_texture_in_use' = 1
  /\ get_pc' = "test"
  /\ UNCHANGED <<allocVars, mapVars, viewVars, poolVars, refVars, lockVars>>

\* lines 1171-1181: the second read of priv->array_texture_size; when it is
\* not 1 the counter is read under the lock.  The value read at line 1172
\* cannot go back to 1, so the test and the locked read are one step.
GetTextureArraySizeEnd ==
  /\ get_pc = "test"
  /\ num_texture_in_use' =
       IF array_texture_size = 1 THEN num_texture_in_use
       ELSE num_array_textures_in_use
  /\ get_pc' = "idle"
  /\ UNCHANGED array_size
  /\ UNCHANGED <<allocVars, mapVars, viewVars, poolVars, refVars, lockVars>>

\* The steps a thread takes inside gst_d3d11_allocator_alloc.
AllocArrayStep(t) ==
  \/ AllocArrayFlushing(t)
  \/ AllocArrayScan(t)
  \/ AllocArrayReturn(t)
  \/ AllocArrayNoTexture(t)
  \/ AllocArrayCreate(t)

\* An allocator used in array mode only, on a device that creates the texture.
NextArray ==
  \/ \E t \in Threads :
       \/ AllocArrayCall(t, ArraySize)
       \/ AllocArrayStep(t)
       \/ SpuriousWakeup(t)
  \/ \E m \in MemKinds : Free(m)
  \/ \E b \in BOOLEAN : SetFlushing(b)

\* Every use of the allocator.
Next ==
  \/ NextArray
  \/ \E t \in Threads : AllocArrayCreateFail(t)
  \/ \E ok \in BOOLEAN : AllocTexture(ok)
  \/ \E ok \in BOOLEAN : AllocStaging(ok)

\* An allocator that nobody flushes, with a caller of
\* gst_d3d11_allocator_get_texture_array_size.
NextGet ==
  \/ \E t \in Threads :
       \/ AllocArrayCall(t, ArraySize)
       \/ AllocArrayScan(t)
       \/ AllocArrayReturn(t)
       \/ AllocArrayNoTexture(t)
       \/ AllocArrayCreate(t)
       \/ AllocArrayCreateFail(t)
  \/ \E m \in MemKinds : Free(m)
  \/ \E ok \in BOOLEAN : AllocTexture(ok)
  \/ GetTextureArraySizeStart
  \/ GetTextureArraySizeEnd

(***************************************************************************)
(* Part B: the map / unmap protocol of one memory object.  Every call      *)
(* holds the object's lock (GST_D3D11_MEMORY_LOCK) from start to end, so a *)
(* call is one step.                                                       *)
(***************************************************************************)

\* GstMapFlags as the functions read them: GST_MAP_D3D11 and GST_MAP_WRITE.
\* GST_MAP_READ only selects the D3D11_MAP type (gst_map_flags_to_d3d11).
MapFlags == [d3d11 : BOOLEAN, write : BOOLEAN]

\* What a finished call of the object leaves in ret.
Called(op, flags, ok) == [op |-> op, d3d11 |-> flags.d3d11, write |-> flags.write, ok |-> ok]
NoFlags == [d3d11 |-> FALSE, write |-> FALSE]

\* The device call c is among the calls of the last step.
Issued(c) == \E i \in DOMAIN calls : calls[i] = c

\* A variant of FirstMap that takes every map for the first.
FirstMapAlways(n) == TRUE

\* priv->cpu_map_count == 0: this map is the one that maps the texture
\* (lines 377 and 446).
FirstMap(n) == n = 0

\* priv->cpu_map_count > 0 after the decrement: an outer map is still
\* outstanding and the texture stays mapped (line 521).
StillMapped(n) == n > 0

\* A variant of Upload that copies to subresource 0 of the texture.
UploadToFirstSubresource ==
  IF staging /\ need_upload
  THEN [tex_data EXCEPT ![0] = staging_data]
  ELSE tex_data

\* lines 423-433: the texture after CopySubresourceRegion from the staging
\* texture to subresource priv->subresource_index, issued when there is a
\* staging texture and NEED_UPLOAD is set.
Upload ==
  IF staging /\ need_upload
  THEN [tex_data EXCEPT ![subresource_index] = staging_data]
  ELSE tex_data

\* gst_d3d11_memory_map of a non-staging object with GST_MAP_D3D11,
\* lines 421-444.
MapGpu(flags) ==
  /\ mtype # GST_D3D11_MEMORY_TYPE_STAGING
  /\ flags.d3d11
  /\ Len(maps) < MaxNest
  /\ tex_data' = Upload
  /\ calls' = IF staging /\ need_upload THEN <<"CopyToTexture">> ELSE <<>>
  /\ gpu_dirty' = (gpu_dirty /\ ~(staging /\ need_upload))
  /\ need_upload' = FALSE
  /\ need_download' = (need_download \/ flags.write)
  /\ maps' = Append(maps, flags)
  /\ ret' = Called("map", flags, TRUE)
  /\ UNCHANGED <<mtype, subresource_index, staging, cpu_map_count,
                 staging_data, hw_mapped, written>>
  /\ UNCHANGED <<allocVars, viewVars, poolVars, getVars, refVars, lockVars>>

\* A variant of NeedDownload that leaves out line 460: a new staging texture
\* is not marked for download.
NeedDownloadFlagOnly == need_download

\* NEED_DOWNLOAD as map_cpu_access_data finds it (line 351): the flag of the
\* object, set at line 460 when the staging texture has just been created.
NeedDownload == need_download \/ ~staging

\* gst_d3d11_memory_map of a non-staging object without GST_MAP_D3D11,
\* lines 446-482, with create_staging_texture (lines 312-337) and
\* map_cpu_access_data (lines 339-368).  create_ok and hw_ok are the results
\* of CreateTexture2D and of Map.
MapCpu(flags, create_ok, hw_ok) ==
  /\ mtype # GST_D3D11_MEMORY_TYPE_STAGING
  /\ ~flags.d3d11
  /\ Len(maps) < MaxNest
  /\ IF FirstMap(cpu_map_count)
     THEN IF ~staging /\ ~create_ok
          THEN \* lines 452-457
               /\ calls' = <<"CreateStagingFailed">>
               /\ ret' = Called("map", flags, FALSE)
               /\ UNCHANGED <<staging, need_download, need_upload, cpu_map_count,
                              staging_data, hw_mapped, maps, written, gpu_dirty>>
          ELSE LET download == NeedDownload
                   created == IF staging THEN <<>> ELSE <<"CreateStaging">>
                   copied == IF download THEN <<"CopyToStaging">> ELSE <<>>
               IN /\ staging' = TRUE
                  /\ staging_data' = IF download THEN tex_data[subresource_index]
                                     ELSE staging_data
                  /\ written' = IF download THEN {} ELSE written
                  /\ gpu_dirty' = (gpu_dirty /\ ~download)
                  /\ IF hw_ok
                     THEN /\ calls' = created \o copied \o <<"Map">>
                          /\ hw_mapped' = TRUE
                          /\ need_upload' = (need_upload \/ flags.write)
                          /\ need_download' = FALSE
                          /\ cpu_map_count' = cpu_map_count + 1
                          /\ maps' = Append(maps, flags)
                          /\ ret' = Called("map", flags, TRUE)
                     ELSE \* lines 465-470
                          /\ calls' = created \o copied \o <<"MapFailed">>
                          /\ need_download' = download
                          /\ ret' = Called("map", flags, FALSE)
                          /\ UNCHANGED <<hw_mapped, need_upload, cpu_map_count, maps>>
     ELSE \* lines 473-478
          /\ calls' = <<>>
          /\ need_upload' = (need_upload \/ flags.write)
          /\ need_download' = FALSE
          /\ cpu_map_count' = cpu_map_count + 1
          /\ maps' = Append(maps, flags)
          /\ ret' = Called("map", flags, TRUE)
          /\ UNCHANGED <<staging, staging_data, hw_mapped, written, gpu_dirty>>
  /\ UNCHANGED <<mtype, subresource_index, tex_data>>
  /\ UNCHANGED <<allocVars, viewVars, poolVars, getVars, refVars, lockVars>>

\* gst_d3d11_memory_map of a staging object, lines 414-419, with
\* gst_d3d11_memory_map_staging (lines 370-406).
MapStaging(flags, hw_ok) ==
  /\ mtype = GST_D3D11_MEMORY_TYPE_STAGING
  /\ Len(maps) < MaxNest
  /\ IF flags.d3d11
     THEN /\ calls' = <<>>
          /\ maps' = Append(maps, flags)
          /\ ret' = Called("map", flags, TRUE)
          /\ UNCHANGED <<cpu_map_count, hw_mapped>>
     ELSE IF FirstMap(cpu_map_count) /\ ~hw_ok
          THEN /\ calls' = <<"MapFailed">>
               /\ ret' = Called("map", flags, FALSE)
               /\ UNCHANGED <<cpu_map_count, hw_mapped, maps>>
          ELSE /\ calls' = IF FirstMap(cpu_map_count) THEN <<"Map">> ELSE <<>>
               /\ hw_mapped' = (hw_mapped \/ FirstMap(cpu_map_count))
               /\ cpu_map_count' = cpu_map_count + 1
               /\ maps' = Append(maps, flags)
               /\ ret' = Called("map", flags, TRUE)
  /\ UNCHANGED <<mtype, subresource_index, staging, need_upload, need_download,
                 tex_data, staging_data, written, gpu_dirty>>
  /\ UNCHANGED <<allocVars, viewVars, poolVars, getVars, refVars, lockVars>>

\* A variant of UnmapSetsFlag without the test of priv->type.
UnmapSetsFlagAnyType(info) == info.write

\* lines 508-509 and 516-517: the unmap of a map with GST_MAP_WRITE sets a
\* transfer flag unless the object is a staging object.
UnmapSetsFlag(info) == mtype # GST_D3D11_MEMORY_TYPE_STAGING /\ info.write

\* gst_d3d11_memory_unmap_full, lines 500-529, with unmap_cpu_access_data
\* (lines 484-498).  The caller nests its maps: info is the GstMapInfo of the
\* innermost outstanding map.
Unmap ==
  /\ maps # <<>>
  /\ LET info == maps[Len(maps)]
         set == UnmapSetsFlag(info)
     IN /\ IF info.d3d11
           THEN /\ need_download' = (need_download \/ set)
                /\ calls' = <<>>
                /\ UNCHANGED <<need_upload, cpu_map_count, hw_mapped>>
           ELSE /\ need_upload' = (need_upload \/ set)
                /\ cpu_map_count' = cpu_map_count - 1
                /\ IF StillMapped(cpu_map_count - 1)
                   THEN calls' = <<>> /\ UNCHANGED hw_mapped
                   ELSE calls' = <<"Unmap">> /\ hw_mapped' = FALSE
                /\ UNCHANGED need_download
        /\ ret' = Called("unmap", info, TRUE)
  /\ maps' = SubSeq(maps, 1, Len(maps) - 1)
  /\ UNCHANGED <<mtype, subresource_index, staging, tex_data, staging_data,
                 written, gpu_dirty>>
  /\ UNCHANGED <<allocVars, viewVars, poolVars, getVars, refVars, lockVars>>

\* The caller writes v through the pointer a map without GST_MAP_D3D11 and
\* with GST_MAP_WRITE returned (map.pData, lines 405 and 481): the staging
\* texture of a non-staging object, the texture of a staging object.
CpuWrite(v) ==
  /\ \E i \in DOMAIN maps : ~maps[i].d3d11 /\ maps[i].write
  /\ IF mtype = GST_D3D11_MEMORY_TYPE_STAGING
     THEN tex_data' = [tex_data EXCEPT ![subresource_index] = v]
            /\ UNCHANGED <<staging_data, written>>
     ELSE staging_data' = v /\ written' = {v} /\ UNCHANGED tex_data
  /\ calls' = <<>>
  /\ ret' = Called("cpu_write", NoFlags, TRUE)
  /\ UNCHANGED <<mtype, subresource_index, staging, cpu_map_count, need_upload,
                 need_download, hw_mapped, maps, gpu_dirty>>
  /\ UNCHANGED <<allocVars, viewVars, poolVars, getVars, refVars, lockVars>>

\* The GPU writes v to the object's subresource of the texture that a map
\* with GST_MAP_D3D11 and GST_MAP_WRITE returned (lines 416 and 443).
GpuWrite(v) ==
  /\ \E i \in DOMAIN maps : maps[i].d3d11 /\ maps[i].write
  /\ tex_data' = [tex_data EXCEPT ![subresource_index] = v]
  /\ gpu_dirty' = (gpu_dirty \/ (mtype # GST_D3D11_MEMORY_TYPE_STAGING
                                   /\ v # tex_data[subresource_index]))
  /\ calls' = <<>>
  /\ ret' = Called("gpu_write", NoFlags, TRUE)
  /\ UNCHANGED <<mtype, subresource_index, staging, cpu_map_count, need_upload,
                 need_download, staging_data, hw_mapped, maps, written>>
  /\ UNCHANGED <<allocVars, viewVars, poolVars, getVars, refVars, lockVars>>

\* The object as gst_d3d11_allocator_alloc (lines 1033-1046) or
\* gst_d3d11_allocator_alloc_staging (lines 1095-1111) returns it: no staging
\* texture, no flag, no map; data is what its texture holds.
NewMemory(m, data) ==
  /\ mtype = TypeOf(m)
  /\ subresource_index = IndexOf(m)
  /\ staging = FALSE
  /\ cpu_map_count = 0
  /\ need_upload = FALSE
  /\ need_download = FALSE
  /\ tex_data = data
  /\ staging_data = 0
  /\ hw_mapped = FALSE
  /\ maps = <<>>
  /\ calls = <<>>
  /\ ret = Called("none", NoFlags, TRUE)
  /\ written = {}
  /\ gpu_dirty = FALSE

\* Every use of the memory object.
NextMap ==
  \/ \E flags \in MapFlags : MapGpu(flags)
  \/ \E flags \in MapFlags, create_ok, hw_ok \in BOOLEAN : MapCpu(flags, create_ok, hw_ok)
  \/ \E flags \in MapFlags, hw_ok \in BOOLEAN : MapStaging(flags, hw_ok)
  \/ Unmap
  \/ \E v \in Values : CpuWrite(v)
  \/ \E v \in Values : GpuWrite(v)

(***************************************************************************)
(* Part C: the derived views of one memory object, and of the objects that *)
(* get its array slot after it.  A call that holds the object's lock       *)
(* (GST_D3D11_MEMORY_LOCK) from its first access to its last is one step.  *)
(***************************************************************************)

\* The length of priv->shader_resource_view[] and priv->render_target_view[].
GST_VIDEO_MAX_PLANES == 4

Planes == 0..(GST_VIDEO_MAX_PLANES - 1)

ViewThreads == 1..NumViewThreads

\* The decoder profiles (GUIDs) and the handles of the native views.
Profiles == 1..MaxProfile
ViewHandles == 1..MaxViews

\* The bits of desc.BindFlags that the view functions test.
D3D11_BIND_SHADER_RESOURCE == "SHADER_RESOURCE"
D3D11_BIND_RENDER_TARGET   == "RENDER_TARGET"
D3D11_BIND_DECODER         == "DECODER"
BindFlagSets ==
  SUBSET {D3D11_BIND_SHADER_RESOURCE, D3D11_BIND_RENDER_TARGET, D3D11_BIND_DECODER}

\* Two of the formats of desc.Format: one with one view, one with two.
DXGI_FORMAT_R8G8B8A8_UNORM == "R8G8B8A8_UNORM"
DXGI_FORMAT_NV12           == "NV12"
Formats == {DXGI_FORMAT_R8G8B8A8_UNORM, DXGI_FORMAT_NV12}

\* num_views of create_shader_resource_views (lines 728-769) and of
\* create_render_target_views (lines 821-850).
NumViews(format) == IF format = DXGI_FORMAT_NV12 THEN 2 ELSE 1

\* A view array of an object without views.
NoViews == [i \in Planes |-> NULL]

\* What a finished view call leaves in vret.
ViewCalled(op, arg, view) == [op |-> op, arg |-> arg, view |-> view]

\* ID3D11..._Release and ID3D11..._AddRef of the view h.
Release(refs, h) == IF h = NULL THEN refs ELSE [refs EXCEPT ![h] = @ - 1]
AddRef(refs, h) == [refs EXCEPT ![h] = @ + 1]

\* The views that n successful creations in a row store in a view array,
\* and the reference the object holds on each.
CreatedViews(n) == [i \in Planes |-> IF i < n THEN num_created + i + 1 ELSE NULL]
WithCreated(refs, n) ==
  [h \in ViewHandles |->
     IF h > num_created /\ h <= num_created + n THEN 1 ELSE refs[h]]

\* A variant of ViewsAfterError that leaves the n views created in the array.
ViewsKeptAfterError(n) == CreatedViews(n)

\* lines 796-802 and 877-883, after `error:`: each of the n views created is
\* released and NULL is stored in every entry of the view array.
ViewsAfterError(n) == NoViews

\* lines 1261, 1338, 1424, 1659: the test of priv->desc.BindFlags.
HasBindFlag(flag) == flag \in desc_BindFlags

\* A variant of ViewsCached that never finds the views.
ViewsCachedNever(num_views) == FALSE

\* lines 1268 and 1345: the views exist already.
ViewsCached(num_views) == num_views # 0

\* gst_d3d11_memory_get_shader_resource_view, lines 1312-1320, with
\* gst_d3d11_memory_ensure_shader_resource_view (lines 1255-1279) and
\* create_shader_resource_views (lines 715-806).  The creation of view number
\* fail_at fails (none fails when fail_at is the number of views).
GetShaderResourceView(t, index, fail_at) ==
  /\ live
  /\ vpc[t] = "idle"
  /\ fail_at \in 0..NumViews(desc_Format)
  /\ IF ~HasBindFlag(D3D11_BIND_SHADER_RESOURCE)
     THEN \* lines 1261-1265
          /\ vret' = ViewCalled("srv", index, NULL)
          /\ UNCHANGED <<shader_resource_view, num_shader_resource_views,
                         view_refs, num_created, vpc, vindex>>
     ELSE IF ViewsCached(num_shader_resource_views)
     THEN \* lines 1268-1271
          /\ vpc' = [vpc EXCEPT ![t] = "srv"]
          /\ vindex' = [vindex EXCEPT ![t] = index]
          /\ UNCHANGED <<shader_resource_view, num_shader_resource_views,
                         view_refs, num_created, vret>>
     ELSE /\ num_created + fail_at <= MaxViews
          /\ num_created' = num_created + fail_at
          /\ IF fail_at < NumViews(desc_Format)
             THEN \* lines 782-786, 796-805: the views created are released
                  /\ shader_resource_view' = ViewsAfterError(fail_at)
                  /\ num_shader_resource_views' = 0
                  /\ vret' = ViewCalled("srv", index, NULL)
                  /\ UNCHANGED <<view_refs, vpc, vindex>>
             ELSE \* lines 776-791
                  /\ shader_resource_view' = CreatedViews(fail_at)
                  /\ num_shader_resource_views' = fail_at
                  /\ view_refs' = WithCreated(view_refs, fail_at)
                  /\ vpc' = [vpc EXCEPT ![t] = "srv"]
                  /\ vindex' = [vindex EXCEPT ![t] = index]
                  /\ UNCHANGED vret
  /\ UNCHANGED <<live, desc_BindFlags, desc_Format, render_target_view,
                 num_render_target_views, decoder_output_view,
                 processor_output_view, decoder_output_view_array, view_profile>>
  /\ UNCHANGED <<allocVars, mapVars, poolVars, getVars, refVars, lockVars>>

\* lines 1322-1329: after the lock is released, the view of the index is read.
GetShaderResourceViewReturn(t) ==
  /\ vpc[t] = "srv"
  /\ vret' = ViewCalled("srv", vindex[t],
                        IF vindex[t] >= num_shader_resource_views THEN NULL
                        ELSE shader_resource_view[vindex[t]])
  /\ vpc' = [vpc EXCEPT ![t] = "idle"]
  /\ vindex' = [vindex EXCEPT ![t] = 0]
  /\ UNCHANGED <<live, desc_BindFlags, desc_Format, shader_resource_view,
                 num_shader_resource_views, render_target_view,
                 num_render_target_views, decoder_output_view,
                 processor_output_view, decoder_output_view_array, view_refs,
                 view_profile, num_created>>
  /\ UNCHANGED <<allocVars, mapVars, poolVars, getVars, refVars, lockVars>>

\* gst_d3d11_memory_get_render_target_view, lines 1389-1397, with
\* gst_d3d11_memory_ensure_render_target_view (lines 1332-1356) and
\* create_render_target_views (lines 808-887).
GetRenderTargetView(t, index, fail_at) ==
  /\ live
  /\ vpc[t] = "idle"
  /\ fail_at \in 0..NumViews(desc_Format)
  /\ IF ~HasBindFlag(D3D11_BIND_RENDER_TARGET)
     THEN \* lines 1338-1342
          /\ vret' = ViewCalled("rtv", index, NULL)
          /\ UNCHANGED <<render_target_view, num_render_target_views,
                         view_refs, num_created, vpc, vindex>>
     ELSE IF ViewsCached(num_render_target_views)
     THEN \* lines 1345-1348
          /\ vpc' = [vpc EXCEPT ![t] = "rtv"]
          /\ vindex' = [vindex EXCEPT ![t] = index]
          /\ UNCHANGED <<render_target_view, num_render_target_views,
                         view_refs, num_created, vret>>
     ELSE /\ num_created + fail_at <= MaxViews
          /\ num_created' = num_created + fail_at
          /\ IF fail_at < NumViews(desc_Format)
             THEN \* lines 863-867, 877-886: the views created are released
                  /\ render_target_view' = ViewsAfterError(fail_at)
                  /\ num_render_target_views' = 0
                  /\ vret' = ViewCalled("rtv", index, NULL)
                  /\ UNCHANGED <<view_refs, vpc, vindex>>
             ELSE \* lines 857-872
                  /\ render_target_view' = CreatedViews(fail_at)
                  /\ num_render_target_views' = fail_at
                  /\ view_refs' = WithCreated(view_refs, fail_at)
                  /\ vpc' = [vpc EXCEPT ![t] = "rtv"]
                  /\ vindex' = [vindex EXCEPT ![t] = index]
                  /\ UNCHANGED vret
  /\ UNCHANGED <<live, desc_BindFlags, desc_Format, shader_resource_view,
                 num_shader_resource_views, decoder_output_view,
                 processor_output_view, decoder_output_view_array, view_profile>>
  /\ UNCHANGED <<allocVars, mapVars, poolVars, getVars, refVars, lockVars>>

\* lines 1399-1406: after the lock is released, the view of the index is read.
GetRenderTargetViewReturn(t) ==
  /\ vpc[t] = "rtv"
  /\ vret' = ViewCalled("rtv", vindex[t],
                        IF vindex[t] >= num_render_target_views THEN NULL
                        ELSE render_target_view[vindex[t]])
  /\ vpc' = [vpc EXCEPT ![t] = "idle"]
  /\ vindex' = [vindex EXCEPT ![t] = 0]
  /\ UNCHANGED <<live, desc_BindFlags, desc_Format, shader_resource_view,
                 num_shader_resource_views, render_target_view,
                 num_render_target_views, decoder_output_view,
                 processor_output_view, decoder_output_view_array, view_refs,
                 view_profile, num_created>>
  /\ UNCHANGED <<allocVars, mapVars, poolVars, getVars, refVars, lockVars>>

\* A variant of SameProfile that takes every profile for equal.
SameProfileAlways(view, profile) == TRUE

\* lines 1432-1434 and 1451-1454: GetDesc of the view and IsEqualGUID.
SameProfile(view, profile) == view_profile[view] = profile

\* gst_d3d11_memory_get_decoder_output_view, lines 1522-1535, with
\* gst_d3d11_memory_ensure_decoder_output_view (lines 1409-1510).  ok is the
\* result of CreateVideoDecoderOutputView.
GetDecoderOutputView(profile, ok) ==
  /\ live
  /\ IF ~HasBindFlag(D3D11_BIND_DECODER)
     THEN \* lines 1424-1428
          /\ vret' = ViewCalled("dov", profile, NULL)
          /\ UNCHANGED <<decoder_output_view, decoder_output_view_array,
                         view_refs, view_profile, num_created>>
     ELSE LET own == decoder_output_view
              slot == subresource_index + 1
              \* lines 1431-1443
              stale_own == own # NULL /\ ~SameProfile(own, profile)
              own1 == IF stale_own THEN NULL ELSE own
              refs1 == IF stale_own THEN Release(view_refs, own) ELSE view_refs
              \* lines 1445-1469
              view == IF own1 = NULL /\ decoder_output_view_array # <<>>
                      THEN decoder_output_view_array[slot] ELSE NULL
              stale_view == view # NULL /\ ~SameProfile(view, profile)
              reused == view # NULL /\ SameProfile(view, profile)
              array2 == IF stale_view
                        THEN [decoder_output_view_array EXCEPT ![slot] = NULL]
                        ELSE decoder_output_view_array
              refs2 == IF stale_view THEN Release(refs1, view)
                       ELSE IF reused THEN AddRef(refs1, view) ELSE refs1
              own2 == IF reused THEN view ELSE own1
              new == num_created + 1
          IN IF own2 # NULL
             THEN \* lines 1434-1435 and 1471-1472: goto succeeded
                  /\ decoder_output_view' = own2
                  /\ decoder_output_view_array' = array2
                  /\ view_refs' = refs2
                  /\ vret' = ViewCalled("dov", profile, own2)
                  /\ UNCHANGED <<view_profile, num_created>>
             ELSE IF ok
             THEN \* lines 1474-1501
                  /\ num_created < MaxViews
                  /\ num_created' = new
                  /\ view_profile' = [view_profile EXCEPT ![new] = profile]
                  /\ decoder_output_view' = new
                  /\ IF array2 # <<>>
                     THEN /\ decoder_output_view_array' = [array2 EXCEPT ![slot] = new]
                          /\ view_refs' =
                               [Release(refs2, array2[slot]) EXCEPT ![new] = 2]
                     ELSE /\ decoder_output_view_array' = array2
                          /\ view_refs' = [refs2 EXCEPT ![new] = 1]
                  /\ vret' = ViewCalled("dov", profile, new)
             ELSE \* lines 1481-1485
                  /\ decoder_output_view' = NULL
                  /\ decoder_output_view_array' = array2
                  /\ view_refs' = refs2
                  /\ vret' = ViewCalled("dov", profile, NULL)
                  /\ UNCHANGED <<view_profile, num_created>>
  /\ UNCHANGED <<live, desc_BindFlags, desc_Format, shader_resource_view,
                 num_shader_resource_views, render_target_view,
                 num_render_target_views, processor_output_view, vpc, vindex>>
  /\ UNCHANGED <<allocVars, mapVars, poolVars, getVars, refVars, lockVars>>

\* A variant of FirstSubresource that accepts every slice.
AnySubresource(index) == TRUE

\* line 1666: a processor output view is made for subresource 0 only.
FirstSubresource(index) == index = 0

\* gst_d3d11_memory_get_processor_output_view, lines 1709-1723, with
\* gst_d3d11_memory_ensure_processor_output_view (lines 1646-1695).  ok is the
\* result of CreateVideoProcessorOutputView.
GetProcessorOutputView(ok) ==
  /\ live
  /\ IF ~HasBindFlag(D3D11_BIND_RENDER_TARGET) \/ ~FirstSubresource(subresource_index)
     THEN \* lines 1659-1670
          /\ vret' = ViewCalled("pov", 0, NULL)
          /\ UNCHANGED <<processor_output_view, view_refs, num_created>>
     ELSE IF processor_output_view # NULL
     THEN \* lines 1673-1674
          /\ vret' = ViewCalled("pov", 0, processor_output_view)
          /\ UNCHANGED <<processor_output_view, view_refs, num_created>>
     ELSE IF ok
     THEN \* lines 1676-1681
          /\ num_created < MaxViews
          /\ num_created' = num_created + 1
          /\ processor_output_view' = num_created + 1
          /\ view_refs' = [view_refs EXCEPT ![num_created + 1] = 1]
          /\ vret' = ViewCalled("pov", 0, num_created + 1)
     ELSE \* lines 1682-1686
          /\ vret' = ViewCalled("pov", 0, NULL)
          /\ UNCHANGED <<processor_output_view, view_refs, num_created>>
  /\ UNCHANGED <<live, desc_BindFlags, desc_Format, shader_resource_view,
                 num_shader_resource_views, render_target_view,
                 num_render_target_views, decoder_output_view,
                 decoder_output_view_array, view_profile, vpc, vindex>>
  /\ UNCHANGED <<allocVars, mapVars, poolVars, getVars, refVars, lockVars>>

\* The number of references the object holds on the view h.
RefsHeld(h) ==
  Cardinality({i \in Planes : shader_resource_view[i] = h})
    + Cardinality({i \in Planes : render_target_view[i] = h})
    + (IF decoder_output_view = h THEN 1 ELSE 0)
    + (IF processor_output_view = h THEN 1 ELSE 0)

\* gst_d3d11_allocator_free, lines 562-589: the views of the object are
\* released and the object is gone.  No thread is inside a call on it (a
\* caller holds a reference to the object).
FreeViews ==
  /\ live
  /\ \A t \in ViewThreads : vpc[t] = "idle"
  /\ live' = FALSE
  /\ view_refs' = [h \in ViewHandles |-> view_refs[h] - RefsHeld(h)]
  /\ shader_resource_view' = NoViews
  /\ num_shader_resource_views' = 0
  /\ render_target_view' = NoViews
  /\ num_render_target_views' = 0
  /\ decoder_output_view' = NULL
  /\ processor_output_view' = NULL
  /\ vret' = ViewCalled("free", 0, NULL)
  /\ UNCHANGED <<desc_BindFlags, desc_Format, decoder_output_view_array,
                 view_profile, num_created, vpc, vindex>>
  /\ UNCHANGED <<allocVars, mapVars, poolVars, getVars, refVars, lockVars>>

\* gst_d3d11_allocator_alloc, lines 1033-1046: the next object of the same
\* type, descriptor and subresource index; g_new0 leaves it without views.
AllocViews ==
  /\ ~live
  /\ live' = TRUE
  /\ vret' = ViewCalled("alloc", 0, NULL)
  /\ UNCHANGED <<desc_BindFlags, desc_Format, shader_resource_view,
                 num_shader_resource_views, render_target_view,
                 num_render_target_views, decoder_output_view,
                 processor_output_view, decoder_output_view_array, view_refs,
                 view_profile, num_created, vpc, vindex>>
  /\ UNCHANGED <<allocVars, mapVars, poolVars, getVars, refVars, lockVars>>

\* An object of descriptor flags and format as alloc returns it (lines
\* 1033-1046), on an allocator whose every alloc call is made with this
\* descriptor: the side table of decoder output views exists when the object
\* is a slice of the array texture and the descriptor has D3D11_BIND_DECODER
\* (lines 968-982).
ViewInit(flags, format) ==
  /\ live = TRUE
  /\ desc_BindFlags = flags
  /\ desc_Format = format
  /\ shader_resource_view = NoViews
  /\ num_shader_resource_views = 0
  /\ render_target_view = NoViews
  /\ num_render_target_views = 0
  /\ decoder_output_view = NULL
  /\ processor_output_view = NULL
  /\ decoder_output_view_array =
       IF mtype = GST_D3D11_MEMORY_TYPE_ARRAY /\ D3D11_BIND_DECODER \in flags
       THEN [i \in 1..ArraySize |-> NULL] ELSE <<>>
  /\ view_refs = [h \in ViewHandles |-> 0]
  /\ view_profile = [h \in ViewHandles |-> 0]
  /\ num_created = 0
  /\ vpc = [t \in ViewThreads |-> "idle"]
  /\ vindex = [t \in ViewThreads |-> 0]
  /\ vret = ViewCalled("none", 0, NULL)

\* Every use of the views of the object.
NextView ==
  \/ \E t \in ViewThreads, index \in 0..NumViews(desc_Format), fail_at \in 0..2 :
       \/ GetShaderResourceView(t, index, fail_at)
       \/ GetRenderTargetView(t, index, fail_at)
  \/ \E t \in ViewThreads :
       \/ GetShaderResourceViewReturn(t)
       \/ GetRenderTargetViewReturn(t)
  \/ \E profile \in Profiles, ok \in BOOLEAN : GetDecoderOutputView(profile, ok)
  \/ \E ok \in BOOLEAN : GetProcessorOutputView(ok)
  \/ FreeViews
  \/ AllocViews

(***************************************************************************)
(* Part D: the buffer pool (gstd3d11bufferpool.c) and the allocation       *)
(* parameters it keeps (gstd3d11memory.c, lines 59-172).                   *)
(***************************************************************************)

\* GstVideoFormat.  UYVP stands for the formats for which
\* gst_d3d11_device_format_from_gst returns NULL.
GST_VIDEO_FORMAT_RGBA      == "RGBA"
GST_VIDEO_FORMAT_NV12      == "NV12"
GST_VIDEO_FORMAT_P010_10LE == "P010_10LE"
GST_VIDEO_FORMAT_P016_LE   == "P016_LE"
GST_VIDEO_FORMAT_I420      == "I420"
GST_VIDEO_FORMAT_UYVP      == "UYVP"
VideoFormats ==
  {GST_VIDEO_FORMAT_RGBA, GST_VIDEO_FORMAT_NV12, GST_VIDEO_FORMAT_P010_10LE,
   GST_VIDEO_FORMAT_P016_LE, GST_VIDEO_FORMAT_I420, GST_VIDEO_FORMAT_UYVP}

DXGI_FORMAT_UNKNOWN  == "UNKNOWN"
DXGI_FORMAT_P010     == "P010"
DXGI_FORMAT_P016     == "P016"
DXGI_FORMAT_R8_UNORM == "R8_UNORM"

\* A pointer to a struct: <<>> is NULL, <<r>> points to r.
NullPtr == <<>>
Ptr(r) == <<r>>
Deref(p) == p[1]

\* GstVideoInfo: GST_VIDEO_INFO_FORMAT, _WIDTH, _HEIGHT.
VideoInfo(format, width, height) ==
  [format |-> format, width |-> width, height |-> height]

\* GST_VIDEO_INFO_N_PLANES
N_PLANES(info) ==
  CASE info.format = GST_VIDEO_FORMAT_I420 -> 3
    [] info.format \in {GST_VIDEO_FORMAT_NV12, GST_VIDEO_FORMAT_P010_10LE,
                        GST_VIDEO_FORMAT_P016_LE} -> 2
    [] OTHER -> 1

\* GST_VIDEO_INFO_COMP_WIDTH and _HEIGHT: component 0 has the size of the
\* video, the chroma components of the 4:2:0 formats half of it, rounded up.
SubScale(c, size) == IF c = 0 THEN size ELSE (size + 1) \div 2
COMP_WIDTH(info, c) == SubScale(c, info.width)
COMP_HEIGHT(info, c) == SubScale(c, info.height)

\* gst_d3d11_device_format_from_gst, as far as its callers read the result:
\* dxgi_format, or NULL for a format the device has no mapping for.
DxgiFormat(format) ==
  CASE format = GST_VIDEO_FORMAT_RGBA -> DXGI_FORMAT_R8G8B8A8_UNORM
    [] format = GST_VIDEO_FORMAT_NV12 -> DXGI_FORMAT_NV12
    [] format = GST_VIDEO_FORMAT_P010_10LE -> DXGI_FORMAT_P010
    [] format = GST_VIDEO_FORMAT_P016_LE -> DXGI_FORMAT_P016
    [] OTHER -> DXGI_FORMAT_UNKNOWN
HasD3D11Format(format) == format # GST_VIDEO_FORMAT_UYVP

\* GstD3D11AllocationFlags
GST_D3D11_ALLOCATION_FLAG_TEXTURE_ARRAY == "TEXTURE_ARRAY"

\* A D3D11_TEXTURE2D_DESC, and the one g_new0 leaves.
Desc(format, width, height, size) ==
  [Format |-> format, Width |-> width, Height |-> height, ArraySize |-> size]
ZeroDesc == Desc(DXGI_FORMAT_UNKNOWN, 0, 0, 0)

\* gst_d3d11_allocation_params_new, lines 59-125.
AllocationParamsNew(info, flags) ==
  IF ~HasD3D11Format(info.format) THEN NullPtr
  ELSE Ptr([info |-> info,
            aligned_info |-> info,
            dxgi_format |-> DxgiFormat(info.format),
            flags |-> flags,
            desc |->
              IF DxgiFormat(info.format) = DXGI_FORMAT_UNKNOWN
              THEN [i \in Planes |->
                      IF i < N_PLANES(info)
                      THEN Desc(DXGI_FORMAT_R8_UNORM, COMP_WIDTH(info, i),
                                COMP_HEIGHT(info, i), 1)
                      ELSE ZeroDesc]
              ELSE [i \in Planes |->
                      IF i = 0
                      THEN Desc(DxgiFormat(info.format), info.width,
                                info.height, 1)
                      ELSE ZeroDesc]])

\* gst_d3d11_allocation_params_alignment, lines 139-172.  padding_width and
\* padding_height are the sums of the paddings of align.
AllocationParamsAlignment(params, padding_width, padding_height) ==
  LET info == params.info
      new_info == VideoInfo(info.format, info.width + padding_width,
                            info.height + padding_height)
  IN [params EXCEPT
        !.aligned_info = new_info,
        !.desc = [i \in Planes |->
                    IF i < N_PLANES(info)
                    THEN [params.desc[i] EXCEPT
                            !.Width = COMP_WIDTH(new_info, i),
                            !.Height = COMP_HEIGHT(new_info, i)]
                    ELSE params.desc[i]]]

GST_ROUND_UP_2(n) == ((n + 1) \div 2) * 2

\* gstd3d11bufferpool.c, lines 253-272: resolution of semi-planar formats
\* must be multiple of 2.
FixResolution(params) ==
  LET desc == params.desc
  IN IF /\ desc[0].Format \in {DXGI_FORMAT_NV12, DXGI_FORMAT_P010, DXGI_FORMAT_P016}
        /\ (desc[0].Width % 2 # 0 \/ desc[0].Height % 2 # 0)
     THEN AllocationParamsAlignment(params,
            GST_ROUND_UP_2(desc[0].Width) - desc[0].Width,
            GST_ROUND_UP_2(desc[0].Height) - desc[0].Height)
     ELSE params

\* lines 302-308: the largest ArraySize of the descriptors in use.
RECURSIVE MaxArraySizeFrom(_, _)
MaxArraySizeFrom(desc, i) ==
  IF i >= GST_VIDEO_MAX_PLANES \/ desc[i].Format = DXGI_FORMAT_UNKNOWN THEN 0
  ELSE LET rest == MaxArraySizeFrom(desc, i + 1)
       IN IF desc[i].ArraySize > rest THEN desc[i].ArraySize ELSE rest
MaxArraySize(params) == MaxArraySizeFrom(params.desc, 0)

\* The pool stores the max_buffers it was asked for.
MaxBuffersAsAsked(params, max_buffers) == max_buffers

\* lines 299-316: the max_buffers the pool stores in the config.
ClampMaxBuffers(params, max_buffers) ==
  IF GST_D3D11_ALLOCATION_FLAG_TEXTURE_ARRAY \in params.flags
  THEN IF max_buffers = 0 \/ max_buffers > MaxArraySize(params)
       THEN MaxArraySize(params)
       ELSE max_buffers
  ELSE max_buffers

\* The caps of a config: none, caps gst_video_info_from_caps cannot parse, or
\* the caps of a video info.
NoCaps == [media |-> "none", info |-> VideoInfo(GST_VIDEO_FORMAT_RGBA, 0, 0)]
OtherCaps == [media |-> "other", info |-> VideoInfo(GST_VIDEO_FORMAT_RGBA, 0, 0)]
VideoCaps(info) == [media |-> "video", info |-> info]
VideoInfos ==
  {VideoInfo(f, w, h) : f \in VideoFormats, w \in 1..MaxDim, h \in 1..MaxDim}
AllCaps == {NoCaps, OtherCaps} \cup {VideoCaps(info) : info \in VideoInfos}

\* The parameters a caller builds for a video info: allocation_params_new,
\* then possibly allocation_params_alignment and an ArraySize for the array.
CallerParams(info, flags, pad_right, pad_bottom, size) ==
  LET new == AllocationParamsNew(info, flags)
      aligned == IF pad_right = 0 /\ pad_bottom = 0 THEN Deref(new)
                 ELSE AllocationParamsAlignment(Deref(new), pad_right, pad_bottom)
  IN IF new = NullPtr THEN NullPtr
     ELSE Ptr([aligned EXCEPT !.desc[0].ArraySize = size])

\* The allocator of a config: none, a GstD3D11Allocator or another GstAllocator;
\* and priv->allocator: none, the one of the config or one the pool made.
NO_ALLOCATOR    == "NULL"
D3D11_ALLOCATOR == "GstD3D11Allocator"
OTHER_ALLOCATOR == "GstAllocator"
OWN_ALLOCATOR   == "gst_d3d11_allocator_new"

\* A config structure: the fields it has ("params" are caps, size and the
\* buffer counts; "allocator" the allocator and its parameters), and their values.
Config(fields, caps, allocator, params, max_buffers) ==
  [fields |-> fields, caps |-> caps, allocator |-> allocator,
   params |-> params, max_buffers |-> max_buffers]

\* What set_config leaves in set_config_call.
ConfigCall(c, staging_ok, parent_ok) ==
  [config |-> c, staging_ok |-> staging_ok, parent_ok |-> parent_ok]
NoConfigCall == ConfigCall(Config({}, NoCaps, NO_ALLOCATOR, NullPtr, 0), FALSE, FALSE)

\* What set_config leaves in set_config_ret when it returns b.
GBoolean(b) == IF b THEN "TRUE" ELSE "FALSE"

\* set_config returns FALSE before it has touched the pool (wrong_config,
\* no_caps, wrong_caps).
SetConfigRefused ==
  /\ set_config_ret' = GBoolean(FALSE)
  /\ UNCHANGED <<pool_allocator, d3d11_params, buffer_size, config>>

\* gst_d3d11_buffer_pool_set_config, lines 194-373.  staging_ok: the staging
\* buffer is allocated and has a video meta; parent_ok: the result of the
\* parent class.  The staging buffer is built and dropped within the call.
\* With a NULL priv->d3d11_params lines 251-254 read desc[0].Format at the
\* offset of desc from address 0: the access violation ends the process
\* ("crash"), and no call follows.
SetConfig(staging_ok, parent_ok) ==
  /\ set_config_ret # "crash"
  /\ set_config_call' = ConfigCall(config, staging_ok, parent_ok)
  /\ IF "params" \notin config.fields THEN SetConfigRefused
     ELSE IF config.caps.media = "none" THEN SetConfigRefused
     ELSE IF config.caps.media # "video" THEN SetConfigRefused
     ELSE IF "allocator" \notin config.fields THEN SetConfigRefused
     ELSE IF config.allocator = OTHER_ALLOCATOR
     THEN \* lines 225-229: the allocator is cleared before the type is checked
          /\ pool_allocator' = NO_ALLOCATOR
          /\ set_config_ret' = GBoolean(FALSE)
          /\ UNCHANGED <<d3d11_params, buffer_size, config>>
     ELSE LET info == config.caps.info
              allocator == IF config.allocator = NO_ALLOCATOR THEN OWN_ALLOCATOR
                           ELSE D3D11_ALLOCATOR
              params == IF config.params # NullPtr THEN config.params
                        ELSE AllocationParamsNew(info, {})
          IN /\ pool_allocator' = allocator
             /\ IF params = NullPtr
                THEN /\ d3d11_params' = NullPtr
                     /\ set_config_ret' = "crash"
                     /\ UNCHANGED <<buffer_size, config>>
                ELSE LET fixed == FixResolution(Deref(params))
                     IN /\ d3d11_params' = Ptr(fixed)
                        /\ IF ~staging_ok
                           THEN /\ set_config_ret' = GBoolean(FALSE)
                                /\ UNCHANGED <<buffer_size, config>>
                           ELSE /\ buffer_size' = Ptr([info |-> info,
                                                       desc |-> fixed.desc])
                                /\ config' = [config EXCEPT !.max_buffers =
                                     ClampMaxBuffers(fixed, config.max_buffers)]
                                /\ set_config_ret' = GBoolean(parent_ok)
  /\ UNCHANGED <<pool_pc, buf, owned, acquired>>
  /\ UNCHANGED <<allocVars, mapVars, viewVars, getVars, refVars, lockVars>>

\* lines 389-406: the number of memory objects of a buffer.
MemsPerBuffer(params) ==
  IF params.dxgi_format = DXGI_FORMAT_UNKNOWN THEN N_PLANES(params.info) ELSE 1

\* What a finished gst_d3d11_buffer_pool_alloc leaves in acquired: the flow
\* return and the memory objects of *buffer (none unless the call stored one).
Acquired(flow, buffer) == [ret |-> flow, buffer |-> buffer]
NoAcquire == Acquired("none", <<>>)

\* The number of objects like m in the sequence b, and in the local buf of
\* the calls in progress; the buffer b handed to its new owner.
RECURSIVE CountIn(_, _)
CountIn(m, b) ==
  IF b = <<>> THEN 0
  ELSE (IF Head(b) = m THEN 1 ELSE 0) + CountIn(m, Tail(b))
InBufs(m) == SumOver([t \in Threads |-> CountIn(m, buf[t])], Threads)
WithBuffer(o, b) == [m \in MemKinds |-> o[m] + CountIn(m, b)]

PoolFrame == UNCHANGED <<pool_allocator, d3d11_params, buffer_size, config,
                         set_config_call, set_config_ret>>

\* lines 392-397, 402-405 and 416-425: what gst_d3d11_buffer_pool_alloc does
\* with the result of gst_d3d11_allocator_alloc, up to its next call of the
\* allocator.
PoolAllocNext(t) ==
  IF last'.call \in {"alloc_flushing", "alloc_failed"}
  THEN IF buf[t] = <<>>
       THEN /\ pool_pc' = [pool_pc EXCEPT ![t] = "idle"]
            /\ acquired' = Acquired("GST_FLOW_ERROR", <<>>)
            /\ UNCHANGED <<buf, owned>>
       ELSE /\ pool_pc' = [pool_pc EXCEPT ![t] = "unref"]
            /\ UNCHANGED <<buf, owned, acquired>>
  ELSE LET buf1 == Append(buf[t], last'.mem)
       IN IF Len(buf1) < MemsPerBuffer(Deref(d3d11_params))
          THEN /\ pool_pc' = [pool_pc EXCEPT ![t] = "alloc"]
               /\ buf' = [buf EXCEPT ![t] = buf1]
               /\ UNCHANGED <<owned, acquired>>
          ELSE /\ pool_pc' = [pool_pc EXCEPT ![t] = "idle"]
               /\ buf' = [buf EXCEPT ![t] = <<>>]
               /\ owned' = WithBuffer(owned, buf1)
               /\ acquired' = Acquired("GST_FLOW_OK", buf1)

ArrayPool ==
  /\ d3d11_params # NullPtr
  /\ GST_D3D11_ALLOCATION_FLAG_TEXTURE_ARRAY \in Deref(d3d11_params).flags

\* lines 384-392, 399-400: gst_d3d11_buffer_pool_alloc makes its buffer and
\* calls gst_d3d11_allocator_alloc for the next plane, with the array flag.
PoolAllocCall(t) ==
  /\ pool_pc[t] \in {"idle", "alloc"}
  /\ ArrayPool
  /\ AllocArrayCallEffect(t, Deref(d3d11_params).desc[Len(buf[t])].ArraySize)
  /\ pool_pc' = [pool_pc EXCEPT ![t] = "alloc"]
  /\ UNCHANGED <<buf, owned, acquired>>
  /\ PoolFrame
  /\ UNCHANGED <<mapVars, viewVars, getVars, refVars, lockVars>>

\* A variant of PoolAllocFlushing that calls the allocator again instead of
\* going to the error path.
PoolAllocFlushingRetries(t) ==
  /\ pool_pc[t] = "alloc"
  /\ AllocArrayFlushingEffect(t)
  /\ UNCHANGED <<pool_pc, buf, owned, acquired>>
  /\ PoolFrame
  /\ UNCHANGED <<mapVars, viewVars, getVars, refVars, lockVars>>

\* The ways gst_d3d11_allocator_alloc returns to gst_d3d11_buffer_pool_alloc
\* in array mode, each followed by what the pool does with the result.
PoolAllocFlushing(t) ==
  /\ pool_pc[t] = "alloc"
  /\ AllocArrayFlushingEffect(t)
  /\ PoolAllocNext(t)
  /\ PoolFrame
  /\ UNCHANGED <<mapVars, viewVars, getVars, refVars, lockVars>>

PoolAllocReturn(t) ==
  /\ pool_pc[t] = "alloc"
  /\ AllocArrayReturnEffect(t)
  /\ PoolAllocNext(t)
  /\ PoolFrame
  /\ UNCHANGED <<mapVars, viewVars, getVars, refVars, lockVars>>

PoolAllocCreate(t) ==
  /\ pool_pc[t] = "alloc"
  /\ AllocArrayCreateEffect(t)
  /\ PoolAllocNext(t)
  /\ PoolFrame
  /\ UNCHANGED <<mapVars, viewVars, getVars, refVars, lockVars>>

PoolAllocCreateFail(t) ==
  /\ pool_pc[t] = "alloc"
  /\ AllocArrayCreateFailEffect(t)
  /\ PoolAllocNext(t)
  /\ PoolFrame
  /\ UNCHANGED <<mapVars, viewVars, getVars, refVars, lockVars>>

\* The same for a pool without the array flag: the call of the allocator is
\* one step.
PoolAllocTexture(t, ok) ==
  /\ pool_pc[t] \in {"idle", "alloc"}
  /\ pc[t] = "idle"
  /\ d3d11_params # NullPtr
  /\ ~ArrayPool
  /\ AllocTextureEffect(ok)
  /\ PoolAllocNext(t)
  /\ PoolFrame
  /\ UNCHANGED <<mapVars, viewVars, getVars, refVars, lockVars>>

\* line 421: gst_buffer_unref (buf) frees the memory objects of buf one
\* after the other, each with gst_d3d11_allocator_free; the call returns
\* GST_FLOW_ERROR after the last.
PoolUnref(t) ==
  /\ pool_pc[t] = "unref"
  /\ FreeEffect(Head(buf[t]))
  /\ buf' = [buf EXCEPT ![t] = Tail(buf[t])]
  /\ owned' = owned
  /\ IF Tail(buf[t]) = <<>>
     THEN /\ pool_pc' = [pool_pc EXCEPT ![t] = "idle"]
          /\ acquired' = Acquired("GST_FLOW_ERROR", <<>>)
     ELSE UNCHANGED <<pool_pc, acquired>>
  /\ PoolFrame
  /\ UNCHANGED <<mapVars, viewVars, getVars, refVars, lockVars>>

\* The owner of a buffer the pool has returned releases it: its memory
\* objects are freed one after the other.
PoolRelease(m) ==
  /\ owned[m] > 0
  /\ FreeEffect(m)
  /\ owned' = [owned EXCEPT ![m] = @ - 1]
  /\ UNCHANGED <<pool_pc, buf, acquired>>
  /\ PoolFrame
  /\ UNCHANGED <<mapVars, viewVars, getVars, refVars, lockVars>>

\* gst_d3d11_buffer_pool_flush_start and _flush_stop, lines 428-446.
PoolFlushStart ==
  /\ pool_allocator # NO_ALLOCATOR
  /\ SetFlushing(TRUE)

PoolFlushStop ==
  /\ pool_allocator # NO_ALLOCATOR
  /\ SetFlushing(FALSE)

\* gst_d3d11_buffer_pool_init, and a config nobody has filled in.
PoolInit ==
  /\ pool_allocator = NO_ALLOCATOR
  /\ d3d11_params = NullPtr
  /\ buffer_size = NullPtr
  /\ config = Config({}, NoCaps, NO_ALLOCATOR, NullPtr, 0)
  /\ pool_pc = [t \in Threads |-> "idle"]
  /\ buf = [t \in Threads |-> <<>>]
  /\ owned = [m \in MemKinds |-> 0]
  /\ set_config_call = NoConfigCall
  /\ set_config_ret = "none"
  /\ acquired = NoAcquire

\* The configs callers pass.
Configs ==
  {Config(fields, caps, allocator, NullPtr, max_buffers) :
     fields \in {{"params", "allocator"}, {"params"}, {"allocator"}},
     caps \in AllCaps,
     allocator \in {NO_ALLOCATOR, D3D11_ALLOCATOR, OTHER_ALLOCATOR},
     max_buffers \in 0..MaxBuffers}
  \cup
  {Config({"params", "allocator"}, VideoCaps(info), allocator,
          CallerParams(info, flags, pad_right, pad_bottom, size), max_buffers) :
     info \in {i \in VideoInfos : HasD3D11Format(i.format)},
     allocator \in {NO_ALLOCATOR, D3D11_ALLOCATOR, OTHER_ALLOCATOR},
     flags \in {{}, {GST_D3D11_ALLOCATION_FLAG_TEXTURE_ARRAY}},
     pad_right \in 0..MaxPad, pad_bottom \in 0..MaxPad,
     size \in 1..ArraySize,
     max_buffers \in 0..MaxBuffers}

\* A pool that set_config has configured for the video info and the flags,
\* with an allocator of its own and an array of ArraySize slices.
PoolConfigured(info, flags) ==
  LET c == Config({"params", "allocator"}, VideoCaps(info), NO_ALLOCATOR,
                  CallerParams(info, flags, 0, 0,
                    IF flags = {} THEN 1 ELSE ArraySize), 0)
      fixed == FixResolution(Deref(c.params))
  IN /\ pool_allocator = OWN_ALLOCATOR
     /\ d3d11_params = Ptr(fixed)
     /\ buffer_size = Ptr([info |-> info, desc |-> fixed.desc])
     /\ config = [c EXCEPT !.max_buffers = ClampMaxBuffers(fixed, 0)]
     /\ pool_pc = [t \in Threads |-> "idle"]
     /\ buf = [t \in Threads |-> <<>>]
     /\ owned = [m \in MemKinds |-> 0]
     /\ set_config_call = ConfigCall(c, TRUE, TRUE)
     /\ set_config_ret = GBoolean(TRUE)
     /\ acquired = NoAcquire

\* The pool is configured once and then only asked for its configuration.
NextConfig ==
  \E staging_ok \in BOOLEAN, parent_ok \in BOOLEAN :
     SetConfig(staging_ok, parent_ok)

\* An active pool: threads acquire buffers, owners release them, and the
\* pipeline flushes.
NextPool ==
  \/ \E t \in Threads :
       \/ PoolAllocCall(t)
       \/ AllocArrayScan(t)
       \/ AllocArrayNoTexture(t)
       \/ SpuriousWakeup(t)
       \/ PoolAllocFlushing(t)
       \/ PoolAllocReturn(t)
       \/ PoolAllocCreate(t)
       \/ PoolAllocCreateFail(t)
       \/ \E ok \in BOOLEAN : PoolAllocTexture(t, ok)
       \/ PoolUnref(t)
  \/ \E m \in MemKinds : PoolRelease(m)
  \/ PoolFlushStart
  \/ PoolFlushStop

(***************************************************************************)
(* Part E: the reference counts of the array textures.  The steps of Part  *)
(* A with what they do to the COM reference counts, and the disposal of    *)
(* the allocator.                                                          *)
(***************************************************************************)

RefFrame == UNCHANGED <<mapVars, viewVars, poolVars, getVars, lockVars>>

\* Steps of alloc that touch no reference count.
RefAllocArrayCall(t) ==
  /\ ~disposed
  /\ AllocArrayCallEffect(t, ArraySize)
  /\ UNCHANGED refVars
  /\ RefFrame

RefAllocArrayScan(t) ==
  /\ ~disposed
  /\ AllocArrayScan(t)

RefAllocArrayNoTexture(t) ==
  /\ ~disposed
  /\ AllocArrayNoTexture(t)

\* lines 1021-1022 and 1042: ID3D11Texture2D_AddRef (priv->texture), and the
\* new object keeps priv->texture.
RefAllocArrayReturn(t) ==
  /\ ~disposed
  /\ AllocArrayReturnEffect(t)
  /\ texture_refs' = [texture_refs EXCEPT ![texture] = @ + 1]
  /\ mem_texture' = [mem_texture EXCEPT ![<<index_to_use[t], texture>>] = @ + 1]
  /\ UNCHANGED disposed
  /\ RefFrame

\* lines 1013-1014, 1021-1022 and 1042: ID3D11Device_CreateTexture2D returns a
\* texture with one reference, stored in priv->texture; then as above.
RefAllocArrayCreate(t) ==
  /\ ~disposed
  /\ AllocArrayCreateEffect(t)
  /\ texture_refs' = Append(texture_refs, 2)
  /\ mem_texture' = [mem_texture EXCEPT ![<<index_to_use[t], texture'>>] = @ + 1]
  /\ UNCHANGED disposed
  /\ RefFrame

\* lines 580-581 of gst_d3d11_allocator_free: ID3D11Texture2D_Release
\* (dmem_priv->texture).  The texture of an object that is no slice of the
\* array is its own.
RefFree(m) ==
  /\ ~disposed
  /\ FreeEffect(m)
  /\ IF TypeOf(m) = GST_D3D11_MEMORY_TYPE_ARRAY
     THEN \E h \in Handles :
            /\ mem_texture[<<IndexOf(m), h>>] > 0
            /\ mem_texture' = [mem_texture EXCEPT ![<<IndexOf(m), h>>] = @ - 1]
            /\ texture_refs' = [texture_refs EXCEPT ![h] = @ - 1]
     ELSE UNCHANGED <<texture_refs, mem_texture>>
  /\ UNCHANGED disposed
  /\ RefFrame

\* The other objects the allocator makes, which keep it alive as well.
RefAllocTexture ==
  /\ ~disposed
  /\ AllocTextureEffect(TRUE)
  /\ UNCHANGED refVars
  /\ RefFrame

\* gst_d3d11_allocator_dispose, lines 592-609.  Every memory object and every
\* caller holds a reference to the allocator (gst_memory_init, line 1036), so
\* the allocator is disposed of only when no object is alive and no call is
\* in progress.
RefDispose ==
  /\ ~disposed
  /\ \A m \in MemKinds : mems[m] = 0
  /\ \A t \in Threads : pc[t] = "idle"
  /\ disposed' = TRUE
  /\ texture' = NULL
  /\ texture_refs' = IF texture = NULL THEN texture_refs
                     ELSE [texture_refs EXCEPT ![texture] = @ - 1]
  /\ last' = Returned("dispose", NULL)
  /\ UNCHANGED <<flushing, array_in_use, array_texture_size,
                 num_array_textures_in_use, cond, mems, pc, desc_ArraySize,
                 index_to_use, waited, flush_woken, mem_texture>>
  /\ RefFrame

\* An allocator on a device that creates every texture, up to its disposal.
NextRef ==
  \/ \E t \in Threads :
       \/ RefAllocArrayCall(t)
       \/ RefAllocArrayScan(t)
       \/ RefAllocArrayNoTexture(t)
       \/ RefAllocArrayReturn(t)
       \/ RefAllocArrayCreate(t)
  \/ \E m \in MemKinds : RefFree(m)
  \/ RefAllocTexture
  \/ RefDispose

(***************************************************************************)
(* Part F: the locks.  Each call is reduced to the lock operations, waits  *)
(* and device-context calls it makes, in program order; which branch a     *)
(* call takes is chosen when it starts.                                    *)
(***************************************************************************)

\* The memory objects whose locks are modelled.
NumObjs == 2
Objs == 1..NumObjs

\* GST_D3D11_MEMORY_GET_LOCK (o), GST_D3D11_ALLOCATOR_GET_LOCK and the lock
\* behind gst_d3d11_device_lock.
MemLock(o) == <<"mem", o>>
AllocLock == <<"alloc", 0>>
DeviceLock == <<"device", 0>>
MemLocks == {MemLock(o) : o \in Objs}

\* The operations a call is made of.
Lock(l) == <<"lock", l>>
Unlock(l) == <<"unlock", l>>
Native(call) == <<"native", <<call, 0>>>>
Scan == <<"scan", <<"", 0>>>>
Wake == <<"wake", <<"", 0>>>>
CondBroadcast(freed) == <<"broadcast", <<"", freed>>>>

\* A variant of MapCpuAccessData that does not take the lock of the device.
MapCpuAccessDataUnlocked(download) ==
  (IF download THEN <<Native("CopySubresourceRegion")>> ELSE <<>>)
    \o <<Native("Map")>>

\* map_cpu_access_data, lines 350-365, with and without the download.
MapCpuAccessData(download) ==
  <<Lock(DeviceLock)>>
    \o (IF download THEN <<Native("CopySubresourceRegion")>> ELSE <<>>)
    \o <<Native("Map"), Unlock(DeviceLock)>>

\* gst_d3d11_memory_map_staging, lines 376-403: first is cpu_map_count == 0.
MapStagingLocks(o, first) ==
  <<Lock(MemLock(o))>>
    \o (IF first THEN <<Lock(DeviceLock), Native("Map"), Unlock(DeviceLock)>>
        ELSE <<>>)
    \o <<Unlock(MemLock(o))>>

\* gst_d3d11_memory_map with GST_MAP_D3D11, lines 421-441: upload is
\* priv->staging && NEED_UPLOAD.
MapD3D11Locks(o, upload) ==
  <<Lock(MemLock(o))>>
    \o (IF upload
        THEN <<Lock(DeviceLock), Native("CopySubresourceRegion"), Unlock(DeviceLock)>>
        ELSE <<>>)
    \o <<Unlock(MemLock(o))>>

\* gst_d3d11_memory_map without GST_MAP_D3D11, lines 421, 444-479.
MapCpuLocks(o, first, download) ==
  <<Lock(MemLock(o))>>
    \o (IF first THEN MapCpuAccessData(download) ELSE <<>>)
    \o <<Unlock(MemLock(o))>>

\* unmap_cpu_access_data, lines 495-497.
UnmapCpuAccessData ==
  <<Lock(DeviceLock), Native("Unmap"), Unlock(DeviceLock)>>

\* gst_d3d11_memory_unmap_full, lines 506-528: last is the unmap that takes
\* cpu_map_count to 0.
UnmapFullLocks(o, last_unmap) ==
  <<Lock(MemLock(o))>>
    \o (IF last_unmap THEN UnmapCpuAccessData ELSE <<>>)
    \o <<Unlock(MemLock(o))>>

\* gst_d3d11_memory_ensure_shader_resource_view, _render_target_view and
\* _processor_output_view, lines 1267-1276, 1344-1353, 1672-1692.
EnsureViewLocks(o) == <<Lock(MemLock(o)), Unlock(MemLock(o))>>

\* One section under the lock of the allocator inside an ensure function.
ArraySection == <<Lock(AllocLock), Unlock(AllocLock)>>

\* A variant of EnsureArrayViewLocks that takes the lock of the allocator first.
EnsureArrayViewLocksAllocatorFirst(o, lookup, store) ==
  <<Lock(AllocLock), Lock(MemLock(o)), Unlock(MemLock(o)), Unlock(AllocLock)>>

\* gst_d3d11_memory_ensure_decoder_output_view, lines 1430-1507, and
\* gst_d3d11_memory_ensure_processor_input_view, lines 1559-1613: the view
\* table of the allocator is looked up (lookup) and the new view stored in it
\* (store), each under the lock of the allocator.
EnsureArrayViewLocks(o, lookup, store) ==
  <<Lock(MemLock(o))>>
    \o (IF lookup THEN ArraySection ELSE <<>>)
    \o (IF store THEN ArraySection ELSE <<>>)
    \o <<Unlock(MemLock(o))>>

\* gst_d3d11_allocator_alloc with the array flag, lines 959-1010: the scan is
\* made under the lock; what follows it depends on what it finds.
AllocArray == <<Lock(AllocLock), Scan>>

\* calculate_mem_size, lines 696-710, in gst_d3d11_allocator_alloc_staging.
CalculateMemSize ==
  <<Lock(DeviceLock), Native("Map"), Native("Unmap"), Unlock(DeviceLock)>>

\* gst_d3d11_allocator_free, lines 554-561.
FreeLocked == <<Lock(AllocLock), CondBroadcast(1), Unlock(AllocLock)>>

\* gst_d3d11_allocator_set_flushing, lines 1139-1142.
SetFlushingLocked == <<Lock(AllocLock), CondBroadcast(0), Unlock(AllocLock)>>

\* gst_d3d11_allocator_get_texture_array_size, lines 1176-1178.
GetTextureArraySizeLocked == ArraySection

\* The calls a thread can make.
Programs ==
  {MapStagingLocks(o, first) : o \in Objs, first \in BOOLEAN}
    \cup {MapD3D11Locks(o, upload) : o \in Objs, upload \in BOOLEAN}
    \cup {MapCpuLocks(o, first, download) : o \in Objs, first \in BOOLEAN,
                                       download \in BOOLEAN}
    \cup {UnmapFullLocks(o, last_unmap) : o \in Objs, last_unmap \in BOOLEAN}
    \cup {EnsureViewLocks(o) : o \in Objs}
    \cup {EnsureArrayViewLocks(o, lookup, store) : o \in Objs, lookup \in BOOLEAN,
                                              store \in BOOLEAN}
    \cup {AllocArray, CalculateMemSize, FreeLocked, SetFlushingLocked,
          GetTextureArraySizeLocked}

NoNative == [call |-> "none", thread |-> 0, held |-> <<>>]

LockInit ==
  /\ held = [t \in Threads |-> <<>>]
  /\ prog = [t \in Threads |-> <<>>]
  /\ cv = {}
  /\ slots_free = ArraySize
  /\ last_native = NoNative

\* Lock l is held by some thread.
IsHeld(l) == \E u \in Threads : \E k \in 1..Len(held[u]) : held[u][k] = l

Holds(t, l) == \E k \in 1..Len(held[t]) : held[t][k] = l

Without(q, l) == SelectSeq(q, LAMBDA x : x # l)

LockFrame == UNCHANGED <<allocVars, mapVars, viewVars, poolVars, getVars, refVars>>

\* The thread advances to its next operation.
Advance(t) == prog' = [prog EXCEPT ![t] = Tail(prog[t])]

\* A thread that is in no call starts one.
LockCall(t, program) ==
  /\ prog[t] = <<>>
  /\ prog' = [prog EXCEPT ![t] = program]
  /\ UNCHANGED <<held, cv, slots_free, last_native>>
  /\ LockFrame

\* g_mutex_lock: the thread gets the lock once nobody holds it.
AcquireLock(t) ==
  /\ prog[t] # <<>>
  /\ Head(prog[t])[1] = "lock"
  /\ ~IsHeld(Head(prog[t])[2])
  /\ held' = [held EXCEPT ![t] = Append(@, Head(prog[t])[2])]
  /\ Advance(t)
  /\ UNCHANGED <<cv, slots_free, last_native>>
  /\ LockFrame

\* g_mutex_unlock.
ReleaseLock(t) ==
  /\ prog[t] # <<>>
  /\ Head(prog[t])[1] = "unlock"
  /\ held' = [held EXCEPT ![t] = Without(@, Head(prog[t])[2])]
  /\ Advance(t)
  /\ UNCHANGED <<cv, slots_free, last_native>>
  /\ LockFrame

\* A call on the device context.
NativeCall(t) ==
  /\ prog[t] # <<>>
  /\ Head(prog[t])[1] = "native"
  /\ last_native' = [call |-> Head(prog[t])[2][1], thread |-> t, held |-> held[t]]
  /\ Advance(t)
  /\ UNCHANGED <<held, cv, slots_free>>
  /\ LockFrame

\* lines 993-1010 of gst_d3d11_allocator_alloc: with no free slot the thread
\* enters g_cond_wait, which releases the lock of the allocator, and after
\* it unlocks and takes the lock again (goto do_again); with a free slot it
\* marks the slot and unlocks.
ScanSlots(t) ==
  /\ prog[t] # <<>>
  /\ Head(prog[t])[1] = "scan"
  /\ IF slots_free = 0
     THEN /\ cv' = cv \cup {t}
          /\ held' = [held EXCEPT ![t] = Without(@, AllocLock)]
          /\ prog' = [prog EXCEPT ![t] = <<Wake, Unlock(AllocLock)>> \o AllocArray]
          /\ UNCHANGED slots_free
     ELSE /\ slots_free' = slots_free - 1
          /\ prog' = [prog EXCEPT ![t] = <<Unlock(AllocLock)>>]
          /\ UNCHANGED <<cv, held>>
  /\ UNCHANGED last_native
  /\ LockFrame

\* g_cond_wait returns: the thread has been woken and has the lock of the
\* allocator again.
WakeUp(t) ==
  /\ prog[t] # <<>>
  /\ Head(prog[t])[1] = "wake"
  /\ t \notin cv
  /\ ~IsHeld(AllocLock)
  /\ held' = [held EXCEPT ![t] = Append(@, AllocLock)]
  /\ Advance(t)
  /\ UNCHANGED <<cv, slots_free, last_native>>
  /\ LockFrame

\* g_cond_broadcast (&priv->cond), after free has cleared a slot (line 556)
\* or set_flushing has stored the flag.
BroadcastCond(t) ==
  /\ prog[t] # <<>>
  /\ Head(prog[t])[1] = "broadcast"
  /\ cv' = {}
  /\ slots_free' = IF slots_free + Head(prog[t])[2][2] > ArraySize THEN ArraySize
                   ELSE slots_free + Head(prog[t])[2][2]
  /\ Advance(t)
  /\ UNCHANGED <<held, last_native>>
  /\ LockFrame

\* The calls of any number of threads on the objects, the allocator and the
\* device.
NextLock ==
  \E t \in Threads :
    \/ \E program \in Programs : LockCall(t, program)
    \/ AcquireLock(t)
    \/ ReleaseLock(t)
    \/ NativeCall(t)
    \/ ScanSlots(t)
    \/ WakeUp(t)
    \/ BroadcastCond(t)

(***************************************************************************)
(* Part G.  Array-mode allocs whose descriptors differ in ArraySize.  The  *)
(* bitmap is created once, with the ArraySize of the first call (lines     *)
(* 968-973); every later call scans desc->ArraySize entries of it.         *)
(***************************************************************************)

\* The values g_array_index (an unchecked macro) can read behind the n bytes
\* of the bitmap when the scan of lines 993-998 runs to k > n: any bytes.
BytesBehind(n, k) == [1..(IF k > n THEN k - n ELSE 0) -> {0, 1}]

\* lines 959-1010 as in AllocArrayScan, for any desc->ArraySize.  An index
\* below the length of the bitmap is read and marked in it; an index behind
\* it reads and writes the memory after the array, which is not the bitmap's.
AllocArrayScanSized(t) ==
  /\ pc[t] = "do_again"
  /\ ~flushing
  /\ LET n == desc_ArraySize[t]
         bitmap == EnsureArray(n)
     IN \E behind \in BytesBehind(Len(bitmap), n) :
          LET i == FirstFree(bitmap \o behind, n)
          IN /\ array_texture_size' =
                  IF array_in_use = <<>> THEN n ELSE array_texture_size
             /\ IF i = n
                THEN /\ array_in_use' = bitmap
                     /\ cond' = cond \cup {t}
                     /\ pc' = [pc EXCEPT ![t] = "wait"]
                     /\ waited' = [waited EXCEPT ![t] = TRUE]
                     /\ UNCHANGED <<num_array_textures_in_use, index_to_use>>
                ELSE /\ array_in_use' =
                          IF i < Len(bitmap) THEN [bitmap EXCEPT ![i + 1] = 1]
                          ELSE bitmap
                     /\ num_array_textures_in_use' =
                          GUintInc(num_array_textures_in_use)
                     /\ index_to_use' = [index_to_use EXCEPT ![t] = i]
                     /\ pc' = [pc EXCEPT ![t] = "texture"]
                     /\ UNCHANGED <<cond, waited>>
  /\ UNCHANGED <<flushing, texture, mems, desc_ArraySize, flush_woken, last>>
  /\ UNCHANGED <<mapVars, viewVars, poolVars, getVars, refVars, lockVars>>

\* lines 554-561 for an object whose subresource_index is not below the length
\* of the bitmap: the store of line 555 goes behind the array.
FreeSized(m) ==
  /\ TypeOf(m) = GST_D3D11_MEMORY_TYPE_ARRAY
  /\ IF IndexOf(m) < Len(array_in_use)
     THEN Free(m)
     ELSE /\ mems[m] > 0
          /\ num_array_textures_in_use' = GUintDec(num_array_textures_in_use)
          /\ pc' = Broadcast(pc)
          /\ cond' = {}
          /\ mems' = [mems EXCEPT ![m] = @ - 1]
          /\ last' = Returned("free", m)
          /\ UNCHANGED <<flushing, array_in_use, array_texture_size, texture,
                         desc_ArraySize, index_to_use, waited, flush_woken>>
          /\ UNCHANGED <<mapVars, viewVars, poolVars, getVars, refVars, lockVars>>

\* An allocator used in array mode only, on a device that creates the
\* texture, by callers whose descriptors have any ArraySize from 1 up.
NextSized ==
  \/ \E t \in Threads :
       \/ \E n \in 1..ArraySize : AllocArrayCall(t, n)
       \/ AllocArrayScanSized(t)
       \/ AllocArrayReturn(t)
       \/ AllocArrayNoTexture(t)
       \/ AllocArrayCreate(t)
  \/ \E m \in MemKinds : FreeSized(m)
  \/ GetTextureArraySizeStart
  \/ GetTextureArraySizeEnd

(***************************************************************************)
(* Specifications.                                                         *)
(***************************************************************************)

\* The allocator, with a memory object that nobody maps.
Init ==
  /\ AllocInit
  /\ GetInit
  /\ RefInit
  /\ LockInit
  /\ NewMemory(Mem(GST_D3D11_MEMORY_TYPE_TEXTURE, 0), [i \in Slots |-> 0])
  /\ ViewInit({}, DXGI_FORMAT_R8G8B8A8_UNORM)
  /\ PoolInit

Spec == Init /\ [][Next]_vars

\* The scheduler lets every thread that is inside alloc, and not blocked in
\* g_cond_wait, take its next step; nothing obliges a caller to call.
FairSpec == Spec /\ \A t \in Threads : WF_vars(AllocArrayStep(t))

SpecGet == Init /\ [][NextGet]_vars

SpecRef == Init /\ [][NextRef]_vars

SpecLock == Init /\ [][NextLock]_vars

SpecSized == Init /\ [][NextSized]_vars

\* A memory object of any type, with any contents, on an allocator that is
\* not used meanwhile.
InitMap ==
  /\ AllocInit
  /\ GetInit
  /\ RefInit
  /\ LockInit
  /\ \E m \in MemKinds, data \in [Slots -> Values] : NewMemory(m, data)
  /\ ViewInit({}, DXGI_FORMAT_R8G8B8A8_UNORM)
  /\ PoolInit

SpecMap == InitMap /\ [][NextMap]_vars

\* A memory object of any type, bind flags and format that nobody maps, and
\* the objects that follow it.
InitView ==
  /\ AllocInit
  /\ GetInit
  /\ RefInit
  /\ LockInit
  /\ \E m \in MemKinds : NewMemory(m, [i \in Slots |-> 0])
  /\ \E flags \in BindFlagSets, format \in Formats : ViewInit(flags, format)
  /\ PoolInit

SpecView == InitView /\ [][NextView]_vars

\* A pool nobody has configured, and the config of its first set_config.
InitConfig ==
  /\ AllocInit
  /\ GetInit
  /\ RefInit
  /\ LockInit
  /\ NewMemory(Mem(GST_D3D11_MEMORY_TYPE_TEXTURE, 0), [i \in Slots |-> 0])
  /\ ViewInit({}, DXGI_FORMAT_R8G8B8A8_UNORM)
  /\ pool_allocator = NO_ALLOCATOR
  /\ d3d11_params = NullPtr
  /\ buffer_size = NullPtr
  /\ config \in Configs
  /\ pool_pc = [t \in Threads |-> "idle"]
  /\ buf = [t \in Threads |-> <<>>]
  /\ owned = [m \in MemKinds |-> 0]
  /\ set_config_call = NoConfigCall
  /\ set_config_ret = "none"
  /\ acquired = NoAcquire

SpecConfig == InitConfig /\ [][NextConfig]_vars

\* The config structures an application passes to a pool it configures again:
\* those of Configs with both fields, no limit on the buffers and no padding.
ReConfigs ==
  {c \in Configs :
     /\ c.fields = {"params", "allocator"}
     /\ c.max_buffers = 0
     /\ c.caps \in {NoCaps, VideoCaps(VideoInfo(GST_VIDEO_FORMAT_NV12, MaxDim, MaxDim)),
                    VideoCaps(VideoInfo(GST_VIDEO_FORMAT_I420, 1, 1))}
     /\ c.params # NullPtr =>
          /\ Deref(c.params).aligned_info = Deref(c.params).info
          /\ Deref(c.params).desc[0].ArraySize = ArraySize}

\* gst_buffer_pool_set_config of the base class hands the structure c of the
\* caller to gst_d3d11_buffer_pool_set_config: the structure of the next call.
NewConfig(c) ==
  /\ set_config_ret # "crash"
  /\ c # config
  /\ config' = c
  /\ UNCHANGED <<pool_allocator, d3d11_params, buffer_size, pool_pc, buf,
                 owned, set_config_call, set_config_ret, acquired>>
  /\ UNCHANGED <<allocVars, mapVars, viewVars, getVars, refVars, lockVars>>

NextReconfig ==
  \/ NextConfig
  \/ \E c \in ReConfigs : NewConfig(c)

InitReconfig ==
  /\ InitConfig
  /\ config \in ReConfigs

SpecReconfig == InitReconfig /\ [][NextReconfig]_vars

\* A configured pool with a new allocator, for a format of one memory object
\* per buffer or of several, with and without the array flag.
InitPool ==
  /\ AllocInit
  /\ GetInit
  /\ RefInit
  /\ LockInit
  /\ NewMemory(Mem(GST_D3D11_MEMORY_TYPE_TEXTURE, 0), [i \in Slots |-> 0])
  /\ ViewInit({}, DXGI_FORMAT_R8G8B8A8_UNORM)
  /\ \E format \in {GST_VIDEO_FORMAT_NV12, GST_VIDEO_FORMAT_I420},
        flags \in {{}, {GST_D3D11_ALLOCATION_FLAG_TEXTURE_ARRAY}} :
          PoolConfigured(VideoInfo(format, MaxDim, MaxDim), flags)

SpecPool == InitPool /\ [][NextPool]_vars

\* gstd3d11bufferpool.c:375-425 with flush_start and flush_stop never called
\* (flushing stays FALSE, so no alloc returns at line 965): the steps of
\* gst_d3d11_buffer_pool_alloc in thread t after its call.
PoolAllocStep(t) ==
  \/ pool_pc[t] = "alloc" /\ PoolAllocCall(t)
  \/ AllocArrayScan(t)
  \/ AllocArrayNoTexture(t)
  \/ PoolAllocReturn(t)
  \/ PoolAllocCreate(t)
  \/ PoolAllocCreateFail(t)
  \/ \E ok \in BOOLEAN : PoolAllocTexture(t, ok)
  \/ PoolUnref(t)

NextAcquire ==
  \/ \E t \in Threads :
       \/ pool_pc[t] = "idle" /\ PoolAllocCall(t)
       \/ PoolAllocStep(t)
       \/ SpuriousWakeup(t)
  \/ \E m \in MemKinds : PoolRelease(m)

\* The pool never flushes; a thread inside gst_d3d11_buffer_pool_alloc that can
\* take a step takes it, and a buffer that was acquired is released.
FairSpecAcquire ==
  /\ InitPool
  /\ [][NextAcquire]_vars
  /\ \A t \in Threads : WF_vars(PoolAllocStep(t))
  /\ \A m \in MemKinds : WF_vars(PoolRelease(m))

(***************************************************************************)
(* Properties of the allocator.                                            *)
(***************************************************************************)
\* The threads that hold a slot for a memory object they have not returned yet.
HoldingSlot == {t \in Threads : pc[t] \in {"texture", "create"}}

\* Array allocations outstanding: live array memories and slots held by calls
\* about to return one.
Outstanding ==
  SumOver([i \in Slots |-> NumOwners(i)], Slots) + Cardinality(HoldingSlot)

\* Slot i is marked in the bitmap (no slot is before the bitmap exists).
SlotMarked(i) == array_in_use # <<>> /\ array_in_use[i + 1] = 1

BitmapFull == array_in_use # <<>> /\ \A i \in Slots : array_in_use[i + 1] = 1

\* C1: under every interleaving of alloc (array and non-array mode),
\* alloc_staging, free and set_flushing, no two live memory objects of type
\* ARRAY carry the same subresource_index.
C1_SlotOwnedOnce == \A i \in Slots : NumOwners(i) <= 1

\* C2: in array mode with ArraySize slots and flushing clear, a call blocks
\* in g_cond_wait only when ArraySize allocations are outstanding (so the
\* first ArraySize outstanding calls do not block); a call that finds
\* ArraySize of them outstanding blocks; and once one of the objects has been
\* freed, a call that was blocked takes the slot of the freed object and
\* returns a memory object that carries its index.
C2_BlocksOnlyWhenFull ==
  [][\A t \in Threads :
       /\ (pc[t] = "do_again" /\ pc'[t] = "wait") => Outstanding >= ArraySize
       /\ (pc[t] = "do_again" /\ pc'[t] # "do_again" /\ ~flushing
             /\ Outstanding >= ArraySize) => pc'[t] = "wait"
       /\ (pc[t] = "do_again" /\ pc'[t] = "texture" /\ waited[t]
             /\ last.call = "free" /\ Outstanding = ArraySize - 1
             /\ TypeOf(last.mem) = GST_D3D11_MEMORY_TYPE_ARRAY
             /\ ~SlotMarked(IndexOf(last.mem)))
            => index_to_use'[t] = IndexOf(last.mem)
       /\ (pc[t] \in {"texture", "create"} /\ pc'[t] = "idle"
             /\ last'.call = "alloc_array")
            => last' = Returned("alloc_array",
                                Mem(GST_D3D11_MEMORY_TYPE_ARRAY, index_to_use[t]))]_vars

\* C3: a thread that was blocked when set_flushing (TRUE) was called
\* returns failure from that call: it neither blocks again nor takes a slot,
\* whatever set_flushing and free calls follow.
C3_FlushedThreadFails ==
  \A t \in Threads : flush_woken[t] => pc[t] \notin {"wait", "texture", "create"}

\* C4: an array-mode alloc that finds flushing set returns NULL at once: it
\* does not block, and the bitmap, the counter, the array texture and the
\* memory objects are what they were.
C4_FlushingAllocFails ==
  [][\A t \in Threads :
       (pc[t] = "do_again" /\ flushing /\ pc'[t] # "do_again")
         => /\ pc'[t] = "idle"
            /\ t \notin cond'
            /\ last' = Returned("alloc_flushing", NULL)
            /\ UNCHANGED <<array_in_use, array_texture_size,
                           num_array_textures_in_use, texture, mems, cond,
                           flushing>>]_vars

\* The first array-mode alloc of the allocator found flushing set.
C4_Witness ==
  /\ last = Returned("alloc_flushing", NULL)
  /\ flushing
  /\ array_in_use = <<>>

CpuFlags(write) == [d3d11 |-> FALSE, write |-> write]
GpuFlags(write) == [d3d11 |-> TRUE, write |-> write]

\* The outstanding maps made without GST_MAP_D3D11.
CpuMaps == {i \in DOMAIN maps : ~maps[i].d3d11}

\* C6: for nested CPU maps and unmaps of one memory object, staging or not,
\* cpu_map_count counts the outstanding CPU maps, the texture is mapped on the
\* device exactly while the count is positive, Map is issued exactly by the
\* step that takes the count from 0 to 1 and Unmap exactly by the step that
\* takes it from 1 to 0 (so map, map, unmap, unmap issues one Map, then one
\* Unmap).
C6_MapOnceUnmapOnce ==
  /\ [](cpu_map_count = Cardinality(CpuMaps))
  /\ [](hw_mapped <=> cpu_map_count > 0)
  /\ [][/\ Issued("Map")' <=> (cpu_map_count = 0 /\ cpu_map_count' = 1)
        /\ Issued("Unmap")' <=> (cpu_map_count = 1 /\ cpu_map_count' = 0)]_vars

\* A second, nested CPU map has returned without any device call.
C6_Witness ==
  /\ cpu_map_count = 2
  /\ hw_mapped
  /\ ret = Called("map", CpuFlags(TRUE), TRUE)
  /\ calls = <<>>

\* C7: a map for the GPU of a non-staging object that follows the unmap of a
\* CPU map with write intent, through which v was written, copies the staging
\* texture to the object's subresource: the texture then holds v.  Every map
\* for the GPU leaves NEED_UPLOAD clear, one that finds it clear copies
\* nothing and leaves the texture as it is, and only a CPU map or unmap with
\* write intent sets it.
C7_RoundTrip ==
  [][/\ (ret'.op = "map" /\ ret'.d3d11 /\ mtype # GST_D3D11_MEMORY_TYPE_STAGING)
          => /\ (ret = Called("unmap", CpuFlags(TRUE), TRUE) /\ written # {})
                  => /\ Issued("CopyToTexture")'
                     /\ written = {tex_data'[subresource_index]}
             /\ ~need_upload'
             /\ ~need_upload => (~Issued("CopyToTexture")' /\ tex_data' = tex_data)
     /\ (~need_upload /\ need_upload')
          => (ret'.op \in {"map", "unmap"} /\ ~ret'.d3d11 /\ ret'.write)]_vars

\* The CPU wrote MaxVal to the mirror of the slice of the last slot, unmapped,
\* and the map for the GPU that followed has copied it to the texture.
C7_Witness ==
  /\ mtype = GST_D3D11_MEMORY_TYPE_ARRAY
  /\ subresource_index = ArraySize - 1
  /\ ret = Called("map", GpuFlags(FALSE), TRUE)
  /\ calls = <<"CopyToTexture">>
  /\ written = {MaxVal}
  /\ tex_data[subresource_index] = MaxVal
  /\ ~need_upload

\* C8: when a CPU map of a non-staging object returns successfully after a
\* completed access of the GPU with write intent has changed the texture, the
\* staging texture it exposes holds what the object's subresource of the
\* texture holds, also when the map is nested in an outstanding CPU map.
C8_CpuMapSeesGpuWrite ==
  [][(/\ ret'.op = "map" /\ ~ret'.d3d11 /\ ret'.ok
      /\ mtype # GST_D3D11_MEMORY_TYPE_STAGING
      /\ gpu_dirty
      /\ \A i \in DOMAIN maps : ~(maps[i].d3d11 /\ maps[i].write))
       => staging_data' = tex_data'[subresource_index]]_vars

\* C9: while the object has no outstanding map, NEED_UPLOAD and NEED_DOWNLOAD
\* are not both set.
C9_FlagsExclusiveWhenUnmapped ==
  (maps = <<>> /\ cpu_map_count = 0) => ~(need_upload /\ need_download)

\* C10: a CPU map of a non-staging object that fails leaves cpu_map_count,
\* the presence of the staging texture, NEED_UPLOAD and NEED_DOWNLOAD as they
\* were.
C10_FailedMapChangesNothing ==
  [][(/\ ret'.op = "map" /\ ~ret'.d3d11 /\ ~ret'.ok
      /\ mtype # GST_D3D11_MEMORY_TYPE_STAGING)
       => UNCHANGED <<cpu_map_count, staging, need_upload, need_download>>]_vars

\* The device call a comes before the device call b in the last step.
IssuedBefore(a, b) ==
  \E i, j \in DOMAIN calls : i < j /\ calls[i] = a /\ calls[j] = b

\* C11: a CPU map of a non-staging object that takes cpu_map_count from 0 to
\* 1: when the object had no staging texture, one is created and marked
\* NEED_DOWNLOAD (so it is copied to); whenever NEED_DOWNLOAD is set at that
\* point, the copy from the object's subresource of the texture to the
\* staging texture is issued before Map, and the staging texture holds what
\* the subresource holds; NEED_DOWNLOAD is clear when the call returns.
C11_FirstCpuMapDownloads ==
  [][(/\ ret'.op = "map" /\ ~ret'.d3d11
      /\ mtype # GST_D3D11_MEMORY_TYPE_STAGING
      /\ cpu_map_count = 0 /\ cpu_map_count' = 1)
       => /\ ~staging => /\ staging'
                         /\ IssuedBefore("CreateStaging", "CopyToStaging")'
          /\ (need_download \/ ~staging)
               => /\ IssuedBefore("CopyToStaging", "Map")'
                  /\ staging_data' = tex_data[subresource_index]
          /\ Issued("Map")'
          /\ ret'.ok
          /\ ~need_download']_vars

\* The first CPU map of an object has created the staging texture, copied the
\* texture to it and mapped it.
C11_Witness ==
  /\ ret = Called("map", CpuFlags(FALSE), TRUE)
  /\ calls = <<"CreateStaging", "CopyToStaging", "Map">>
  /\ cpu_map_count = 1
  /\ staging
  /\ ~need_download
  /\ staging_data = MaxVal

\* C12: right after the unmap of a CPU map with write intent of a non-staging
\* object, NEED_UPLOAD is set and NEED_DOWNLOAD is clear, whatever maps and
\* unmaps (for the GPU too) came between the map and this unmap; right after
\* the unmap of a map for the GPU with write intent, NEED_DOWNLOAD is set.
C12_UnmapSetsOneFlag ==
  [][(/\ ret'.op = "unmap" /\ ret'.write
      /\ mtype # GST_D3D11_MEMORY_TYPE_STAGING)
       => IF ret'.d3d11 THEN need_download'
                        ELSE need_upload' /\ ~need_download']_vars

\* C13: a staging object (made by gst_d3d11_allocator_alloc_staging), after
\* any sequence of maps and unmaps for the CPU and the GPU: NEED_UPLOAD and
\* NEED_DOWNLOAD are clear, it has no staging texture, no copy between a
\* texture and a staging texture and no creation of one is ever issued, and a
\* CPU map maps the object's own texture: Map is the only device call of the
\* first CPU map, and what the CPU writes through the pointer is in the
\* texture.
C13_StagingObjectHasNoTransfer ==
  /\ [](mtype = GST_D3D11_MEMORY_TYPE_STAGING
          => /\ ~need_upload /\ ~need_download /\ ~staging
             /\ \A i \in DOMAIN calls : calls[i] \in {"Map", "MapFailed", "Unmap"})
  /\ [][mtype = GST_D3D11_MEMORY_TYPE_STAGING
          => /\ (ret'.op = "map" /\ ~ret'.d3d11 /\ ret'.ok /\ cpu_map_count = 0)
                  => calls' = <<"Map">>
             /\ \A v \in Values :
                  (ret'.op = "cpu_write" /\ tex_data'[subresource_index] = v
                     /\ tex_data[subresource_index] # v)
                    => /\ tex_data' = [tex_data EXCEPT ![subresource_index] = v]
                       /\ staging_data' = staging_data]_vars

\* A staging object has been mapped for the GPU and, nested, for the CPU,
\* both with write intent, written by the CPU, and the CPU map unmapped.
C13_Witness ==
  /\ mtype = GST_D3D11_MEMORY_TYPE_STAGING
  /\ ret = Called("unmap", CpuFlags(TRUE), TRUE)
  /\ calls = <<"Unmap">>
  /\ maps = <<GpuFlags(TRUE)>>
  /\ tex_data[subresource_index] = MaxVal
  /\ ~need_upload /\ ~need_download /\ ~staging

(***************************************************************************)
(* Properties of the derived views.                                        *)
(***************************************************************************)
\* The decoder output view kept for the object's subresource: the object's
\* own, else the one of the allocator's side table, else NULL.
KeptDecoderView ==
  IF decoder_output_view # NULL THEN decoder_output_view
  ELSE IF decoder_output_view_array # <<>>
       THEN decoder_output_view_array[subresource_index + 1]
       ELSE NULL

\* The step is a call of gst_d3d11_memory_get_decoder_output_view (or leaves
\* everything as such a call left it).
DecoderViewCall ==
  /\ vret'.op = "dov"
  /\ UNCHANGED <<vpc, num_shader_resource_views, num_render_target_views,
                 processor_output_view>>

\* C14: a request for the decoder output view, with the profile of the view
\* kept for the subresource (by the object itself, or by the side table for
\* a later object of the same array slot), returns the kept view and creates
\* nothing; a request with another profile drops the stale view from the
\* object and from the side table and releases it, and when the creation
\* succeeds the object and the side table hold the new view, which has the
\* profile asked for.
C14_DecoderViewReuse ==
  [][(DecoderViewCall /\ HasBindFlag(D3D11_BIND_DECODER) /\ KeptDecoderView # NULL)
       => IF view_profile[KeptDecoderView] = vret'.arg
          THEN /\ vret'.view = KeptDecoderView
               /\ decoder_output_view' = KeptDecoderView
               /\ num_created' = num_created
               /\ view_profile' = view_profile
          ELSE /\ vret'.view # KeptDecoderView
               /\ decoder_output_view' # KeptDecoderView
               /\ KeptDecoderView' # KeptDecoderView
               /\ view_refs'[KeptDecoderView] = 0
               /\ vret'.view # NULL
                    => /\ num_created' = num_created + 1
                       /\ vret'.view = num_created'
                       /\ view_profile'[vret'.view] = vret'.arg
                       /\ decoder_output_view' = vret'.view
                       /\ decoder_output_view_array # <<>>
                            => decoder_output_view_array'[subresource_index + 1]
                                 = vret'.view]_vars

\* The slice of the last slot had a view of profile 1; a request with
\* profile 2 has replaced it in the object and in the side table.
C14_Witness ==
  /\ mtype = GST_D3D11_MEMORY_TYPE_ARRAY
  /\ subresource_index = ArraySize - 1
  /\ vret = ViewCalled("dov", 2, 2)
  /\ view_profile[1] = 1 /\ view_refs[1] = 0
  /\ view_profile[2] = 2 /\ view_refs[2] = 2
  /\ decoder_output_view = 2
  /\ decoder_output_view_array[subresource_index + 1] = 2

\* The views a request with index i gets from an array of num views.
ViewAt(views, num, i) == IF i >= num THEN NULL ELSE views[i]

\* C15: the shader resource views and the render target views of an object
\* are created once: when they exist, no request of any thread creates a
\* native view of the kind or changes the cached ones while the object lives,
\* a thread past the creation finds all the views of the format, and every
\* request returns the cached view of its index; without the bind flag of
\* the kind a request returns NULL and the object never has a view of it.
C15_ViewsCreatedOnce ==
  /\ [](/\ ~HasBindFlag(D3D11_BIND_SHADER_RESOURCE)
            => num_shader_resource_views = 0 /\ shader_resource_view = NoViews
        /\ ~HasBindFlag(D3D11_BIND_RENDER_TARGET)
            => num_render_target_views = 0 /\ render_target_view = NoViews
        /\ \A t \in ViewThreads :
             /\ vpc[t] = "srv"
                  => /\ num_shader_resource_views = NumViews(desc_Format)
                     /\ \A i \in 0..(num_shader_resource_views - 1) :
                          /\ shader_resource_view[i] # NULL
                          /\ view_refs[shader_resource_view[i]] = 1
             /\ vpc[t] = "rtv"
                  => /\ num_render_target_views = NumViews(desc_Format)
                     /\ \A i \in 0..(num_render_target_views - 1) :
                          /\ render_target_view[i] # NULL
                          /\ view_refs[render_target_view[i]] = 1)
  /\ [][/\ (num_shader_resource_views # 0 /\ live')
             => UNCHANGED <<shader_resource_view, num_shader_resource_views>>
        /\ (num_render_target_views # 0 /\ live')
             => UNCHANGED <<render_target_view, num_render_target_views>>
        /\ (num_shader_resource_views # 0 /\ num_render_target_views # 0
              /\ processor_output_view' = processor_output_view
              /\ decoder_output_view' = decoder_output_view)
             => num_created' = num_created
        /\ \A t \in ViewThreads :
             /\ (vpc[t] = "srv" /\ vpc'[t] = "idle")
                  => vret' = ViewCalled("srv", vindex[t],
                                        ViewAt(shader_resource_view,
                                               num_shader_resource_views, vindex[t]))
             /\ (vpc[t] = "rtv" /\ vpc'[t] = "idle")
                  => vret' = ViewCalled("rtv", vindex[t],
                                        ViewAt(render_target_view,
                                               num_render_target_views, vindex[t]))
             /\ (vpc[t] = "idle" /\ vpc'[t] = "idle" /\ vret' # vret
                   /\ vret'.op = "srv" /\ ~HasBindFlag(D3D11_BIND_SHADER_RESOURCE))
                  => vret'.view = NULL /\ num_created' = num_created
             /\ (vpc[t] = "idle" /\ vpc'[t] = "idle" /\ vret' # vret
                   /\ vret'.op = "rtv" /\ ~HasBindFlag(D3D11_BIND_RENDER_TARGET))
                  => vret'.view = NULL /\ num_created' = num_created]_vars

\* Two threads have asked for a shader resource view of an NV12 object at the
\* same time: the views were created once, one thread has returned the second
\* view and the other is about to read its own.
C15_Witness ==
  /\ desc_Format = DXGI_FORMAT_NV12
  /\ num_shader_resource_views = 2
  /\ num_created = 2
  /\ vret = ViewCalled("srv", 1, shader_resource_view[1])
  /\ shader_resource_view[1] = 2
  /\ \E t \in ViewThreads : vpc[t] = "srv" /\ vindex[t] = 1

\* The step is a call of gst_d3d11_memory_get_processor_output_view (or
\* leaves everything as such a call left it).
ProcessorOutputViewCall == vret'.op = "pov" /\ vpc' = vpc

\* C16: a request for the processor output view of an object whose
\* subresource_index is not 0 returns NULL, creates no view and leaves the
\* object and the allocator as they were; for subresource_index 0 and a
\* descriptor with D3D11_BIND_RENDER_TARGET, the view is created by the first
\* request that succeeds and every later request returns that view.
C16_ProcessorOutputView ==
  /\ [](subresource_index # 0 => processor_output_view = NULL)
  /\ [][/\ (ProcessorOutputViewCall /\ subresource_index # 0)
             => /\ vret'.view = NULL
                /\ UNCHANGED <<live, desc_BindFlags, desc_Format,
                               shader_resource_view, num_shader_resource_views,
                               render_target_view, num_render_target_views,
                               decoder_output_view, processor_output_view,
                               decoder_output_view_array, view_refs,
                               view_profile, num_created, vpc, vindex>>
        /\ (ProcessorOutputViewCall /\ subresource_index = 0
              /\ HasBindFlag(D3D11_BIND_RENDER_TARGET))
             => IF processor_output_view # NULL
                THEN /\ vret'.view = processor_output_view
                     /\ UNCHANGED <<processor_output_view, num_created, view_refs>>
                ELSE \/ /\ vret'.view = NULL
                        /\ UNCHANGED <<processor_output_view, num_created, view_refs>>
                     \/ /\ vret'.view = num_created + 1
                        /\ num_created' = num_created + 1
                        /\ processor_output_view' = vret'.view
                        /\ view_refs'[vret'.view] = 1
        /\ (processor_output_view # NULL /\ live')
             => processor_output_view' = processor_output_view]_vars

\* The slice of the last slot of an array texture that can be a render target
\* was asked for a processor output view and has none.
C16_Witness ==
  /\ mtype = GST_D3D11_MEMORY_TYPE_ARRAY
  /\ subresource_index = ArraySize - 1
  /\ HasBindFlag(D3D11_BIND_RENDER_TARGET)
  /\ live
  /\ vret = ViewCalled("pov", 0, NULL)
  /\ processor_output_view = NULL
  /\ num_created = 0

(***************************************************************************)
(* Properties of the buffer pool.                                          *)
(***************************************************************************)

\* The step in which gst_d3d11_buffer_pool_alloc of thread t returns
\* GST_FLOW_ERROR: after the last free of gst_buffer_unref, or right after the
\* failed alloc when buf is empty.
PoolAllocFails(t) ==
  /\ acquired'.ret = "GST_FLOW_ERROR"
  /\ pool_pc'[t] = "idle"
  /\ \/ pool_pc[t] # "idle"
     \/ /\ last'.call = "alloc_failed"
        /\ last' # last \/ acquired' # acquired
  /\ \A u \in Threads \ {t} : pool_pc'[u] = pool_pc[u] /\ pc'[u] = pc[u]

\* Slot i has an owner: a live array object of a buffer, or a call that is
\* about to return one.
SlotOwned(i) ==
  \/ owned[Mem(GST_D3D11_MEMORY_TYPE_ARRAY, i)]
       + InBufs(Mem(GST_D3D11_MEMORY_TYPE_ARRAY, i)) > 0
  \/ \E u \in HoldingSlot : index_to_use[u] = i

\* C17: when gst_d3d11_buffer_pool_alloc fails, it returns an error and stores
\* no buffer, every memory object it had appended is freed (the live objects
\* are those of the returned buffers and of the other calls), and nothing of
\* the call stays behind in the allocator: every marked slot has an owner and
\* num_array_textures_in_use is the number of array allocations outstanding.
C17_NoPartialBuffer ==
  [][\A t \in Threads :
       PoolAllocFails(t) =>
         /\ acquired'.buffer = <<>>
         /\ buf'[t] = <<>>
         /\ \A m \in MemKinds : mems'[m] = owned'[m] + InBufs(m)'
         /\ \A i \in Slots : SlotMarked(i)' => SlotOwned(i)'
         /\ num_array_textures_in_use' = Outstanding']_vars

\* The calls of set_config that must fail: a malformed config, no caps or
\* caps that are not those of a video, a video format without a native format
\* when the config brings no parameters of its own, an allocator that is not
\* a GstD3D11Allocator, or a staging buffer that cannot be built.
MustFail(call) ==
  LET c == call.config
  IN \/ "params" \notin c.fields
     \/ "allocator" \notin c.fields
     \/ c.caps.media # "video"
     \/ c.params = NullPtr /\ ~HasD3D11Format(c.caps.info.format)
     \/ c.allocator = OTHER_ALLOCATOR
     \/ ~call.staging_ok

\* C18: a set_config that must fail returns FALSE: it neither ends the
\* process nor returns TRUE.
C18_ConfigureFails ==
  (set_config_ret # "none" /\ MustFail(set_config_call))
    => set_config_ret = GBoolean(FALSE)

\* The number of slots of the array texture a pool with these parameters
\* gets: the ArraySize of the descriptor of its first alloc (gstd3d11memory.c,
\* lines 968-973).
SlotCapacity(params) == params.desc[0].ArraySize

\* C19: after a successful set_config with the array flag, the max_buffers in
\* the config is the smaller of the max_buffers asked for and the number of
\* slots, and the number of slots when 0 (unlimited) was asked for, so it is
\* at most the number of slots; without the flag it is the one asked for.
C19_StoredMaxBuffers ==
  set_config_ret = GBoolean(TRUE) =>
    LET asked == set_config_call.config.max_buffers
        params == Deref(d3d11_params)
        capacity == SlotCapacity(params)
    IN IF GST_D3D11_ALLOCATION_FLAG_TEXTURE_ARRAY \in params.flags
       THEN /\ config.max_buffers =
                 IF asked = 0 \/ asked > capacity THEN capacity ELSE asked
            /\ config.max_buffers <= capacity
       ELSE config.max_buffers = asked

\* A successful set_config with the array flag has lowered the max_buffers
\* asked for to the number of slots.
C19_Witness ==
  /\ set_config_ret = GBoolean(TRUE)
  /\ GST_D3D11_ALLOCATION_FLAG_TEXTURE_ARRAY \in Deref(d3d11_params).flags
  /\ set_config_call.config.max_buffers > SlotCapacity(Deref(d3d11_params))
  /\ config.max_buffers = SlotCapacity(Deref(d3d11_params))

\* The parameters the last set_config started from: those of the config, or
\* new ones for the video info of the caps.
ParamsPassed(call) ==
  IF call.config.params # NullPtr THEN Deref(call.config.params)
  ELSE Deref(AllocationParamsNew(call.config.caps.info, {}))

\* The smallest even number greater than or equal to n.
NextEven(n) == IF n % 2 = 0 THEN n ELSE n + 1

\* C20: after a successful set_config, for the semi-planar formats the width
\* and the height of the plane-0 descriptor are the original ones rounded up
\* to the next even number and the padding of the aligned video info has
\* grown by the same amounts; for the other formats the width and the height
\* are the original ones; and the correction leaves the corrected parameters
\* as they are.
C20_EvenResolution ==
  set_config_ret = GBoolean(TRUE) =>
    LET old == ParamsPassed(set_config_call)
        new == Deref(d3d11_params)
    IN /\ IF old.desc[0].Format \in
               {DXGI_FORMAT_NV12, DXGI_FORMAT_P010, DXGI_FORMAT_P016}
          THEN /\ new.desc[0].Width = NextEven(old.desc[0].Width)
               /\ new.desc[0].Height = NextEven(old.desc[0].Height)
               /\ new.aligned_info.width - old.aligned_info.width
                    = new.desc[0].Width - old.desc[0].Width
               /\ new.aligned_info.height - old.aligned_info.height
                    = new.desc[0].Height - old.desc[0].Height
          ELSE /\ new.desc[0].Width = old.desc[0].Width
               /\ new.desc[0].Height = old.desc[0].Height
       /\ FixResolution(new) = new

\* A slot is free for a call of thread t that is about to take the lock.
SlotFree(t) ==
  \E i \in 0..(desc_ArraySize[t] - 1) : EnsureArray(desc_ArraySize[t])[i + 1] = 0

\* C21: the flushing flag of the allocator is what the last of flush_start and
\* flush_stop made it.  While it is set, an alloc of gst_d3d11_buffer_pool_alloc
\* with the array flag that takes the lock returns NULL without blocking and
\* the pool call fails: it returns GST_FLOW_ERROR or goes on to free what it
\* had appended.  While it is clear, such an alloc that finds a free slot takes
\* the first one, and unless the device fails it returns a memory object,
\* which for a format of one object per buffer makes the buffer the pool call
\* returns with GST_FLOW_OK.
C21_FlushStartStop ==
  /\ [](last.call = SetFlushingCall(TRUE) => flushing)
  /\ [](last.call = SetFlushingCall(FALSE) => ~flushing)
  /\ [][\A t \in Threads :
          /\ (pool_pc[t] = "alloc" /\ pc[t] = "do_again" /\ pc'[t] # "do_again"
                /\ flushing)
               => /\ pc'[t] = "idle"
                  /\ t \notin cond'
                  /\ last' = Returned("alloc_flushing", NULL)
                  /\ IF buf[t] = <<>>
                     THEN /\ pool_pc'[t] = "idle"
                          /\ acquired' = Acquired("GST_FLOW_ERROR", <<>>)
                     ELSE pool_pc'[t] = "unref"
          /\ (pool_pc[t] = "alloc" /\ pc[t] = "do_again" /\ pc'[t] # "do_again"
                /\ ~flushing /\ SlotFree(t))
               => /\ pc'[t] = "texture"
                  /\ index_to_use'[t] =
                       FirstFree(EnsureArray(desc_ArraySize[t]), desc_ArraySize[t])
                  /\ array_in_use'[index_to_use'[t] + 1] = 1
          /\ (pool_pc[t] = "alloc" /\ pc[t] \in {"texture", "create"}
                /\ pc'[t] = "idle" /\ last'.call # "alloc_failed")
               => /\ last' = Returned("alloc_array",
                                      Mem(GST_D3D11_MEMORY_TYPE_ARRAY, index_to_use[t]))
                  /\ MemsPerBuffer(Deref(d3d11_params)) = 1
                       => /\ pool_pc'[t] = "idle"
                          /\ acquired' = Acquired("GST_FLOW_OK", <<last'.mem>>)]_vars

\* A pool call has failed on the flushing flag although a slot was free.
C21_Witness ==
  /\ flushing
  /\ last = Returned("alloc_flushing", NULL)
  /\ acquired = Acquired("GST_FLOW_ERROR", <<>>)
  /\ array_in_use # <<>>
  /\ ~BitmapFull

\* C22: gst_d3d11_allocator_alloc without the array flag never waits and,
\* when the device creates the texture, never fails: in every state, with the
\* flushing flag set or clear and any number of objects outstanding, the call
\* can return a memory object of type TEXTURE in one step that leaves the
\* waiters of the condition variable, the position of every thread and the
\* array bookkeeping as they are; and no step that returns such an object
\* has touched them.
C22_TextureAllocNeverWaits ==
  /\ CanAlloc(Mem(GST_D3D11_MEMORY_TYPE_TEXTURE, 0))
       => ENABLED (/\ AllocTexture(TRUE)
                   /\ last' = Returned("alloc_texture",
                                       Mem(GST_D3D11_MEMORY_TYPE_TEXTURE, 0))
                   /\ mems'[Mem(GST_D3D11_MEMORY_TYPE_TEXTURE, 0)]
                        = mems[Mem(GST_D3D11_MEMORY_TYPE_TEXTURE, 0)] + 1
                   /\ UNCHANGED <<cond, pc, waited, flushing, array_in_use,
                                  num_array_textures_in_use>>)
  /\ ~ ENABLED (/\ AllocTexture(TRUE)
                /\ last'.call # "alloc_texture")

\* A texture has been allocated while the allocator was flushing and every
\* slot of the array was in use.
C22_Witness ==
  /\ flushing
  /\ BitmapFull
  /\ last = Returned("alloc_texture", Mem(GST_D3D11_MEMORY_TYPE_TEXTURE, 0))

\* The number of slots marked in use in the bitmap.
NumMarked == Cardinality({i \in Slots : SlotMarked(i)})

\* C23: gst_d3d11_allocator_get_texture_array_size stores 1 in *array_size
\* while no alloc with an ArraySize above 1 has created the bitmap; a call that
\* stores another size stores the one the first such alloc has fixed, the
\* length of the bitmap, and stores in *num_texture_in_use the number of slots
\* marked in the bitmap at the moment it holds the lock.
C23_GetArraySize ==
  /\ [](array_in_use = <<>> <=> array_texture_size = 1)
  /\ [][(get_pc = "test" /\ get_pc' = "idle")
          => /\ array_in_use = <<>> => (array_size' = 1 /\ num_texture_in_use' = 1)
             /\ array_size' # 1
                  => /\ array_size' = array_texture_size
                     /\ array_size' = Len(array_in_use)
                     /\ num_texture_in_use' = NumMarked]_vars

\* The step in which the alloc of thread t returns on the flushing flag
\* (lines 960-965), and the one in which it returns because CreateTexture2D
\* failed (lines 1015-1018).
FlushingAbort(t) == pc[t] = "do_again" /\ pc'[t] = "idle"
DeviceFailure(t) == pc[t] = "create" /\ pc'[t] = "idle" /\ last'.call = "alloc_failed"

\* C24: what a failed alloc returns tells the caller whether the allocator was
\* flushing or the device failed.  A call that fails for the device returns
\* NULL, and gst_d3d11_buffer_pool_alloc then returns GST_FLOW_ERROR; a call
\* that is aborted by the flushing flag returns neither of the two.
C24_FailuresDiffer ==
  [][\A t \in Threads :
       /\ DeviceFailure(t)
            => /\ last'.mem = NULL
               /\ (pool_pc[t] = "alloc" /\ buf[t] = <<>>)
                    => acquired' = Acquired("GST_FLOW_ERROR", <<>>)
       /\ FlushingAbort(t)
            => /\ last'.mem # NULL
               /\ (pool_pc[t] = "alloc" /\ buf[t] = <<>>)
                    => acquired'.ret # "GST_FLOW_ERROR"]_vars

\* C25: an alloc with an ArraySize above 1 that fails because CreateTexture2D
\* fails returns NULL and gives back the slot it had marked: when it returns,
\* the slot is free in the bitmap and the counter is one less than while the
\* call held the slot, so that a later alloc can take the slot.
C25_FailedCreationReleasesSlot ==
  [][\A t \in Threads :
       DeviceFailure(t)
         => /\ last'.mem = NULL
            /\ array_in_use'[index_to_use[t] + 1] = 0
            /\ num_array_textures_in_use' = num_array_textures_in_use - 1]_vars

\* C26: gst_d3d11_allocator_free changes the bitmap and the counter only for
\* an object of type ARRAY, whose slot alone it clears and for which it
\* decrements the counter by one; the free of an object of type TEXTURE or
\* STAGING leaves both as they are, whether the bitmap exists or not.
C26_FreeByType ==
  [][\A m \in MemKinds :
       mems'[m] < mems[m]
         => IF TypeOf(m) = GST_D3D11_MEMORY_TYPE_ARRAY
            THEN /\ array_in_use' = [array_in_use EXCEPT ![IndexOf(m) + 1] = 0]
                 /\ num_array_textures_in_use' = num_array_textures_in_use - 1
            ELSE UNCHANGED <<array_in_use, num_array_textures_in_use>>]_vars

\* What gst_d3d11_allocator_set_flushing (allocator, b) may change: the flag,
\* and the threads it takes out of g_cond_wait.
SetFlushingPost(b) ==
  /\ flushing' = b
  /\ cond' = {}
  /\ \A t \in Threads : pc'[t] = IF t \in cond THEN "do_again" ELSE pc[t]
  /\ UNCHANGED <<array_in_use, array_texture_size, num_array_textures_in_use,
                 texture, mems, decoder_output_view_array>>

\* C27: gst_d3d11_allocator_set_flushing (allocator, b) can be called in every
\* state; when it returns the flag is b, no thread is left in g_cond_wait,
\* whether the flag was b already or not, and the bitmap, the counter, the
\* side tables, the array texture and the memory objects are as before.  A
\* second call with the same b changes nothing.
C27_SetFlushing ==
  \A b \in BOOLEAN :
    /\ ENABLED SetFlushing(b)
    /\ ~ ENABLED (SetFlushing(b) /\ ~SetFlushingPost(b))
    /\ (last = Returned(SetFlushingCall(b), NULL) /\ flushing = b /\ cond = {})
         => ~ ENABLED (SetFlushing(b) /\ vars' # vars)

\* A thread waiting for a slot has been woken by set_flushing (FALSE) and finds
\* every slot in use again.
C27_Witness ==
  /\ last = Returned(SetFlushingCall(FALSE), NULL)
  /\ BitmapFull
  /\ \E t \in Threads : pc[t] = "do_again" /\ waited[t] /\ ~flush_woken[t]

\* Slot i is free when thread t takes the lock: the bitmap does not exist yet
\* or has 0 at i.
FreeAtLock(i) == array_in_use = <<>> \/ array_in_use[i + 1] = 0

\* C28: the slot an alloc with an ArraySize above 1 marks is the lowest one
\* that is free in the bitmap at that moment, and the memory object the call
\* returns carries that slot as its subresource_index.
C28_FirstFit ==
  [][\A t \in Threads :
       /\ (pc[t] = "do_again" /\ pc'[t] = "texture")
            => /\ FreeAtLock(index_to_use'[t])
               /\ \A j \in 0..(index_to_use'[t] - 1) : ~FreeAtLock(j)
               /\ array_in_use'[index_to_use'[t] + 1] = 1
       /\ (pc[t] \in {"texture", "create"} /\ pc'[t] = "idle"
             /\ last'.call = "alloc_array")
            => last'.mem = Mem(GST_D3D11_MEMORY_TYPE_ARRAY, index_to_use[t])]_vars

\* An alloc has returned slot 1 while the object of slot 0 is alive.
C28_Witness ==
  /\ last = Returned("alloc_array", Mem(GST_D3D11_MEMORY_TYPE_ARRAY, 1))
  /\ SlotMarked(1)
  /\ mems[Mem(GST_D3D11_MEMORY_TYPE_ARRAY, 1)] = 1
  /\ mems[Mem(GST_D3D11_MEMORY_TYPE_ARRAY, 0)] = 1

\* Slot i has an owner: a live memory object of type ARRAY with that
\* subresource_index, or a call that has marked it and has not returned.
HasOwner(i) ==
  \/ NumOwners(i) > 0
  \/ \E t \in HoldingSlot : index_to_use[t] = i

\* C29: once the bitmap exists, the counter is the number of slots marked in
\* the bitmap and the number of array slices outstanding (the live objects of
\* type ARRAY and the slots held by calls about to return one); it is neither
\* below 0 nor above the slot count, and every marked slot has an owner.
C29_CounterMatchesBitmap ==
  array_in_use # <<>>
    => /\ num_array_textures_in_use = NumMarked
       /\ num_array_textures_in_use = Outstanding
       /\ num_array_textures_in_use >= 0
       /\ num_array_textures_in_use <= array_texture_size
       /\ \A i \in Slots : SlotMarked(i) => HasOwner(i)

\* C30: whatever the interleaving of the allocs with an ArraySize above 1,
\* ID3D11Device_CreateTexture2D creates the array texture of the allocator at
\* most once: priv->texture is NULL or the first texture created, the one
\* every memory object of type ARRAY returned so far refers to.
C30_TextureCreatedOnce ==
  texture \in {NULL, 1}

(***************************************************************************)
(* Properties of the reference counts, the locks and the remaining claims. *)
(***************************************************************************)

\* The live objects of type ARRAY.
LiveSlices == SumOver([i \in Slots |-> NumOwners(i)], Slots)

\* The sum of the reference counts of the array textures.
RECURSIVE SumSeq(_)
SumSeq(q) == IF q = <<>> THEN 0 ELSE Head(q) + SumSeq(Tail(q))

\* C31: while the allocator is alive and has an array texture, the reference
\* count of priv->texture is 1 plus the number of live objects of type ARRAY;
\* the free of such an object takes exactly one reference from the array
\* textures; and an array texture is destroyed only once the allocator is
\* disposed of and no object of type ARRAY is alive.
C31_TextureRefCount ==
  /\ [](texture # NULL => texture_refs[texture] = 1 + LiveSlices)
  /\ [][\A i \in Slots :
          NumOwners(i)' < NumOwners(i)
            => SumSeq(texture_refs') = SumSeq(texture_refs) - 1]_vars
  /\ [](\A h \in 1..Len(texture_refs) :
          texture_refs[h] = 0 => (disposed /\ LiveSlices = 0))

\* Thread t waits for a lock that thread u holds.
WaitsFor(t, u) ==
  /\ prog[t] # <<>>
  /\ \/ Head(prog[t])[1] = "lock" /\ Holds(u, Head(prog[t])[2])
     \/ Head(prog[t])[1] = "wake" /\ t \notin cv /\ Holds(u, AllocLock)

\* C32: a thread that holds the lock of the allocator has taken it last: it
\* takes no lock of a memory object, and no other lock, while it holds it; a
\* thread in g_cond_wait holds no lock of a memory object; and there is no
\* set of threads each of which waits for a lock held by one of the set.
C32_LockOrder ==
  /\ \A t \in Threads : \A j, k \in 1..Len(held[t]) :
       j < k => held[t][j] # AllocLock
  /\ \A t \in cv : \A l \in MemLocks : ~Holds(t, l)
  /\ \A D \in SUBSET Threads :
       D # {} => \E t \in D : \A u \in D : ~WaitsFor(t, u)

\* A thread is in g_cond_wait while another holds the lock of a memory object
\* and, taken after it, the lock of the allocator.
C32_Witness ==
  \E t, u \in Threads, o \in Objs :
    /\ t \in cv
    /\ held[u] = <<MemLock(o), AllocLock>>

\* C33: every ID3D11DeviceContext_Map, _Unmap and _CopySubresourceRegion is
\* called by a thread that holds the lock of the device, and no thread in
\* g_cond_wait holds it.
C33_DeviceLock ==
  /\ last_native # NoNative
       => \E k \in 1..Len(last_native.held) : last_native.held[k] = DeviceLock
  /\ \A t \in cv : ~Holds(t, DeviceLock)

\* A copy has been made under the lock of the device by a thread that still
\* holds it, while another thread is in g_cond_wait.
C33_Witness ==
  /\ last_native.call = "CopySubresourceRegion"
  /\ Holds(last_native.thread, DeviceLock)
  /\ cv # {}

\* The step of thread t in which the creation of the views of the kind fails
\* with num views already in the array of the object (0 when none exists).
ViewCreationFails(t, op, flag, num) ==
  /\ vpc[t] = "idle" /\ vpc' = vpc
  /\ HasBindFlag(flag)
  /\ num = 0
  /\ vret' = ViewCalled(op, vret'.arg, NULL)
  /\ vret' # vret \/ num_created' # num_created

\* C34: when the creation of one of the shader resource views, or of the
\* render target views, of an object fails, the call returns NULL and the
\* views it has created are released (no reference is left on any of them),
\* every entry of the view array of the object is NULL and the number of
\* views is 0; a later request that finds the number at 0 creates the views
\* anew, all of them, with one reference each.
C34_ViewCleanup ==
  /\ [][\A t \in ViewThreads :
          /\ ViewCreationFails(t, "srv", D3D11_BIND_SHADER_RESOURCE,
                               num_shader_resource_views)
               => /\ \A i \in Planes : shader_resource_view'[i] = NULL
                  /\ num_shader_resource_views' = 0
                  /\ \A h \in (num_created + 1)..num_created' : view_refs'[h] = 0
          /\ ViewCreationFails(t, "rtv", D3D11_BIND_RENDER_TARGET,
                               num_render_target_views)
               => /\ \A i \in Planes : render_target_view'[i] = NULL
                  /\ num_render_target_views' = 0
                  /\ \A h \in (num_created + 1)..num_created' : view_refs'[h] = 0
          /\ (vpc[t] = "idle" /\ vpc'[t] = "srv" /\ num_shader_resource_views = 0)
               => /\ num_shader_resource_views' = NumViews(desc_Format)
                  /\ \A i \in 0..(NumViews(desc_Format) - 1) :
                       /\ shader_resource_view'[i] = num_created + i + 1
                       /\ view_refs'[shader_resource_view'[i]] = 1
          /\ (vpc[t] = "idle" /\ vpc'[t] = "rtv" /\ num_render_target_views = 0)
               => /\ num_render_target_views' = NumViews(desc_Format)
                  /\ \A i \in 0..(NumViews(desc_Format) - 1) :
                       /\ render_target_view'[i] = num_created + i + 1
                       /\ view_refs'[render_target_view'[i]] = 1]_vars
  /\ [](num_shader_resource_views = 0 => \A i \in Planes : shader_resource_view[i] = NULL)
  /\ [](num_render_target_views = 0 => \A i \in Planes : render_target_view[i] = NULL)

\* The creation of the second shader resource view of an NV12 object failed
\* (view 1 was created and released), and a later request has created views
\* 2 and 3.
C34_Witness ==
  /\ desc_Format = DXGI_FORMAT_NV12
  /\ desc_BindFlags = {D3D11_BIND_SHADER_RESOURCE}
  /\ num_created = 3
  /\ view_refs[1] = 0
  /\ num_shader_resource_views = 2
  /\ shader_resource_view[0] = 2 /\ shader_resource_view[1] = 3

\* C35: at the step in which a slot of the bitmap goes from free to in-use,
\* flushing is false (before and after the step), also when the thread that
\* marks it has waited on the condition and was woken by a free, by
\* set_flushing or spuriously.
C35_NoMarkWhileFlushing ==
  [][\A i \in Slots :
       (~SlotMarked(i) /\ SlotMarked(i)') => (~flushing /\ ~flushing')]_vars

\* A thread that waited and was woken by set_flushing (TRUE) has just marked a
\* slot: flushing was cleared again before it took the lock.
C35_Witness ==
  \E t \in Threads :
    /\ pc[t] = "texture"
    /\ waited[t]
    /\ flush_woken[t]
    /\ SlotMarked(index_to_use[t])
    /\ ~flushing

\* C36: in an array-mode pool of a format with more than one memory object per
\* buffer, that is not flushing and whose acquired buffers are all released,
\* every call of gst_d3d11_buffer_pool_alloc returns: no thread
\* stays in it forever, holding the slots of its first planes and waiting for
\* the slots of the others.
C36_AcquireReturns ==
  \A t \in Threads :
    (ArrayPool /\ MemsPerBuffer(Deref(d3d11_params)) > 1 /\ pool_pc[t] # "idle")
      ~> (pool_pc[t] = "idle")

\* C37: a set_config that returns FALSE on a pool whose last set_config
\* returned TRUE leaves priv->allocator, priv->d3d11_params and the cached
\* sizes as they were, and the pool still has an allocator.
C37_FailedConfigureKeepsState ==
  [][(/\ set_config_ret = GBoolean(TRUE)
      /\ set_config_ret' = GBoolean(FALSE)
      /\ pool_allocator # NO_ALLOCATOR)
       => /\ UNCHANGED <<pool_allocator, d3d11_params, buffer_size>>
          /\ pool_allocator' # NO_ALLOCATOR]_vars

\* The step in which the scan of thread t ends, and the last index it read in
\* the bitmap: the slot it takes, or the last of the desc->ArraySize entries
\* when it found none.
ScanEnds(t) == pc[t] = "do_again" /\ pc'[t] \in {"wait", "texture"}
LastIndexRead(t) ==
  IF pc'[t] = "texture" THEN index_to_use'[t] ELSE desc_ArraySize[t] - 1

\* C38: every index an array-mode alloc reads in the bitmap or marks in it is
\* below the length of the bitmap, also when the ArraySize of its descriptor
\* is not the one of the alloc that created the bitmap.
C38_IndexInBitmap ==
  [][\A t \in Threads :
       ScanEnds(t) => LastIndexRead(t) < Len(array_in_use')]_vars

\* C40: once an array-mode alloc has created the bitmap, whatever its length,
\* gst_d3d11_allocator_get_texture_array_size stores in *num_texture_in_use
\* the number of array allocations outstanding (the live array objects and
\* the slots of calls about to return one), 0 when there is none.
C40_NumInUseAnyCapacity ==
  [][(get_pc = "test" /\ get_pc' = "idle" /\ array_in_use # <<>>)
       => num_texture_in_use' = Outstanding]_vars

\* The device context calls of the step copy between the texture and its
\* staging texture.
IssuesCopy ==
  \E k \in 1..Len(calls') : calls'[k] \in {"CopyToTexture", "CopyToStaging"}

\* C39: no CopySubresourceRegion between the texture of an object and its
\* staging texture is issued while the staging texture is mapped by the device
\* (cpu_map_count > 0), whatever maps of the object are outstanding.
C39_NoCopyWhileMapped ==
  [][IssuesCopy => (cpu_map_count = 0 /\ ~hw_mapped)]_vars

====
